---- MODULE Spec2Model ----
(***************************************************************************)
(* Session / token state machine, request dispatcher and device transport  *)
(* selector of the MyJDownloader client (classes MyJDApi and JDDevice).    *)
(*                                                                         *)
(* An async function runs synchronously up to its next await; every action *)
(* below is one such synchronous segment of a call.  The awaits that are   *)
(* kept as separate steps are the HTTP exchange (fetch) and the digests of *)
(* _secretCreate / _updateEncryptionTokens.  The sign / encrypt awaits     *)
(* read their key before awaiting and the request is built from values     *)
(* read before them, so they are folded into the segment that sends.  The  *)
(* decrypt awaits of a reply are folded into the segment that receives it: *)
(* the reply is decrypted and its rid compared in one step.                *)
(***************************************************************************)
EXTENDS Integers, Sequences, FiniteSets, TLC

\* ------------------------------------------------------------- bounds ----
MaxCalls == 3          \* calls started by the caller
MaxClock == 1          \* milliseconds Date.now() advances one by one
MaxMinutes == 1        \* minutes Date.now() advances at a stretch

\* ---------------------------------------------------- program constants ----
CooldownSeconds == 60   \* the 60 of lines 1410 and 1418
MsPerSecond == 1000     \* the 1000 of Date.now() / 1000
Minute == CooldownSeconds * MsPerSecond

\* ------------------------------------------------------ value universe ----
\* Nullable values that are not sequences: None is null, Some(x) a value.
None == {}
Some(x) == {x}
The(o) == CHOOSE x \in o : TRUE

\* null for buffers and strings modelled as sequences of numbers
Null == <<>>

\* Text is a sequence of character codes; "A" = 65, "a" = 97, "p" = 112.
Emails == {<<65>>}
Passwords == {<<112>>, <<113>>}
DomainServer == <<115, 101, 114, 118, 101, 114>>
DomainDevice == <<100, 101, 118, 105, 99, 101>>

\* Session / regain tokens the relay may issue, as hex digit strings
\* ("aa"/"cc" and "bb"/"dd"), given as the digits' values.
TokenPairs == { <<(<<10, 10>>), (<<12, 12>>)>>, <<(<<11, 11>>), (<<13, 13>>)>> }

\* Devices the relay may list.  D1 and D2 share a name and differ in id.
D1 == [name |-> "jd", id |-> "id1", type |-> "jd"]
D2 == [name |-> "jd", id |-> "id2", type |-> "jd"]
DeviceLists == { <<>>, <<D1, D2>> }
NameSelectors == {"jd", "JD"}
IdSelectors == {"id1", "id2", "ID1"}

DirectIps == {"10.0.0.1"}
DirectPort == "3128"
RelayUrl == <<"https://api.jdownloader.org">>

ContentAes == "application/aesjson-jd; charset=utf-8"
ContentJson == "application/json; charset=utf-8"

\* ------------------------------------------------------- crypto utils ----
\* String.prototype.toLowerCase on ASCII codes.
LowerChar(c) == IF c >= 65 /\ c <= 90 THEN c + 32 ELSE c
ToLowerCase(s) == [i \in 1..Len(s) |-> LowerChar(s[i])]

\* hexToBuffer: two hex digits per byte.
hexToBuffer(hex) == [i \in 1..(Len(hex) \div 2) |-> 16 * hex[2 * i - 1] + hex[2 * i]]

\* concatBuffers of two buffers.
concatBuffers(a, b) == a \o b

\* crypto.subtle.digest('SHA-256', input): a collision-free function of its
\* input bytes.  The marks 256..258 lie outside the byte range, so a digest
\* inside a later input is read back unambiguously, and the input is laid out
\* twice so that each half of a digest depends on all of the input, as each
\* half of a SHA-256 value does.
Digest(input) == <<256>> \o input \o <<257>> \o input \o <<258>>

\* _secretCreate(email, password, domain)
secretCreate(email, password, domain) ==
    Digest(ToLowerCase(email) \o password \o ToLowerCase(domain))

\* ------------------------------------------------------- JSON and text ----
\* A parsed JSON value.  isObj = FALSE is a bare scalar or a string that was
\* not JSON (raw).  A field that is absent holds None / Null / "".
\* data is the payload: val = "" is a falsy payload, infos the hint list.
EmptyObj ==
    [isObj |-> TRUE, raw |-> "", rid |-> None, sessiontoken |-> Null,
     regaintoken |-> Null, list |-> None, data |-> None, src |-> "", type |-> ""]
Scalar(s) == [EmptyObj EXCEPT !.isObj = FALSE, !.raw = s]
DataVal(v, infos) == [val |-> v, infos |-> infos]
Truthy(d) == d # None /\ The(d).val # ""

\* A text: plain (iv = key = Null) or AES-CBC ciphertext in base64, made with
\* the given iv and key.  json says whether the plain text is JSON, val is the
\* value it parses to (for text that is not JSON, the text itself as a Scalar).
PlainJson(j) == [iv |-> Null, key |-> Null, json |-> TRUE, val |-> j]
PlainRaw(s) == [iv |-> Null, key |-> Null, json |-> FALSE, val |-> Scalar(s)]
IsPlain(text) == text.key = Null /\ text.iv = Null

\* JSON.parse: ok = FALSE is the SyntaxError.
JsonParse(text) ==
    IF IsPlain(text) /\ text.json
    THEN [ok |-> TRUE, val |-> text.val]
    ELSE [ok |-> FALSE, val |-> Scalar("")]

\* The key material split in half: first half iv, second half cipher key.
IvOf(secretToken) == SubSeq(secretToken, 1, Len(secretToken) \div 2)
KeyOf(secretToken) ==
    SubSeq(secretToken, Len(secretToken) \div 2 + 1, Len(secretToken))

\* _encrypt(secretTokenBuffer, dataStr).  ok = FALSE: importKey rejects the
\* empty key that new Uint8Array(null) yields.
encrypt(connectionType, secretToken, text) ==
    IF connectionType = "remoteapi" THEN [ok |-> TRUE, text |-> text]
    ELSE IF secretToken = Null THEN [ok |-> FALSE, text |-> text]
    ELSE [ok |-> TRUE,
          text |-> [text EXCEPT !.iv = IvOf(secretToken), !.key = KeyOf(secretToken)]]

\* (First _decrypt with the halves of the key material taken the other way
\* round.)
decryptSwappedHalves(connectionType, secretToken, text) ==
    IF connectionType = "remoteapi" THEN [ok |-> TRUE, text |-> text]
    ELSE IF secretToken = Null \/ IsPlain(text) \/ text.key # IvOf(secretToken)
    THEN [ok |-> FALSE, text |-> text]
    ELSE IF text.iv = KeyOf(secretToken)
    THEN [ok |-> TRUE, text |-> [text EXCEPT !.iv = Null, !.key = Null]]
    ELSE [ok |-> TRUE, text |-> PlainRaw("garbled")]

\* _decrypt(secretTokenBuffer, dataBase64).  ok = FALSE: atob, importKey or
\* crypto.subtle.decrypt throws (text that is no ciphertext, empty key, or a
\* cipher key that does not fit, which fails the padding check).  The right
\* cipher key with another iv decrypts to text whose first block is garbage.
decrypt(connectionType, secretToken, text) ==
    IF connectionType = "remoteapi" THEN [ok |-> TRUE, text |-> text]
    ELSE IF secretToken = Null \/ IsPlain(text) \/ text.key # KeyOf(secretToken)
    THEN [ok |-> FALSE, text |-> text]
    ELSE IF text.iv = IvOf(secretToken)
    THEN [ok |-> TRUE, text |-> [text EXCEPT !.iv = Null, !.key = Null]]
    ELSE [ok |-> TRUE, text |-> PlainRaw("garbled")]

\* --------------------------------------------------- error taxonomy ----
\* String.prototype.toUpperCase on the strings the relay sends here.
ToUpperCase(s) ==
    CASE s = "auth_failed" -> "AUTH_FAILED"
      [] s = "Auth_Failed" -> "AUTH_FAILED"
      [] s = "jd" -> "JD"
      [] s = "myjd" -> "MYJD"
      [] OTHER -> s

\* EXCEPTION_CLASSES: error type code -> error class.
EXCEPTION_CLASSES ==
    [API_COMMAND_NOT_FOUND |-> "MYJDApiCommandNotFoundException",
     API_INTERFACE_NOT_FOUND |-> "MYJDApiInterfaceNotFoundException",
     AUTH_FAILED |-> "MYJDAuthFailedException",
     BAD_PARAMETERS |-> "MYJDBadParametersException",
     BAD_REQUEST |-> "MYJDBadRequestException",
     CHALLENGE_FAILED |-> "MYJDChallengeFailedException",
     EMAIL_FORBIDDEN |-> "MYJDEmailForbiddenException",
     EMAIL_INVALID |-> "MYJDEmailInvalidException",
     ERROR_EMAIL_NOT_CONFIRMED |-> "MYJDErrorEmailNotConfirmedException",
     FAILED |-> "MYJDFailedException",
     FILE_NOT_FOUND |-> "MYJDFileNotFoundException",
     INTERNAL_SERVER_ERROR |-> "MYJDInternalServerErrorException",
     MAINTENANCE |-> "MYJDMaintenanceException",
     METHOD_FORBIDDEN |-> "MYJDMethodForbiddenException",
     OFFLINE |-> "MYJDOfflineException",
     OUTDATED |-> "MYJDOutdatedException",
     OVERLOAD |-> "MYJDOverloadException",
     SESSION |-> "MYJDSessionException",
     STORAGE_ALREADY_EXISTS |-> "MYJDStorageAlreadyExistsException",
     STORAGE_INVALID_KEY |-> "MYJDStorageInvalidKeyException",
     STORAGE_INVALID_STORAGEID |-> "MYJDStorageInvalidStorageIdException",
     STORAGE_KEY_NOT_FOUND |-> "MYJDStorageKeyNotFoundException",
     STORAGE_LIMIT_REACHED |-> "MYJDStorageLimitReachedException",
     STORAGE_NOT_FOUND |-> "MYJDStorageNotFoundException",
     TOKEN_INVALID |-> "MYJDTokenInvalidException",
     TOO_MANY_REQUESTS |-> "MYJDTooManyRequestsException",
     UNKNOWN |-> "MYJDUnknownException"]

\* The classes that extend MYJDApiException.
ApiExceptionClasses == {EXCEPTION_CLASSES[t] : t \in DOMAIN EXCEPTION_CLASSES}

\* MYJDApiException.getException(exceptionSource, exceptionType): the class
\* and the source of the error raised.  An absent type ("") takes the default
\* EXCEPTION_UNKNOWN; an absent source ("") makes the constructor's
\* exceptionSource.toUpperCase() a TypeError.  (First the variant that looks
\* the type up as it is written.)
getExceptionCaseSensitive(exceptionSource, exceptionType) ==
    LET type == IF exceptionType = "" THEN "UNKNOWN" ELSE exceptionType
        class == IF type \in DOMAIN EXCEPTION_CLASSES
                 THEN EXCEPTION_CLASSES[type]
                 ELSE "MYJDUnknownException"
    IN  IF exceptionSource = ""
        THEN [err |-> "TypeError", source |-> ""]
        ELSE [err |-> class, source |-> ToUpperCase(exceptionSource)]
getException(exceptionSource, exceptionType) ==
    LET type == IF exceptionType = "" THEN "UNKNOWN" ELSE ToUpperCase(exceptionType)
        class == IF type \in DOMAIN EXCEPTION_CLASSES
                 THEN EXCEPTION_CLASSES[type]
                 ELSE "MYJDUnknownException"
    IN  IF exceptionSource = ""
        THEN [err |-> "TypeError", source |-> ""]
        ELSE [err |-> class, source |-> ToUpperCase(exceptionSource)]

\* ------------------------------------------------------ requests ----
AppKey == <<107>>

NoQuery == [path |-> "", params |-> <<>>, rid |-> -1]

\* A URL is a sequence of pieces: literal text, a value (character codes or
\* hex digits) or a number.
Lit(str) == [s |-> str, v |-> <<>>]
Val(value) == [s |-> "", v |-> value]
Num(n) == [s |-> "#", v |-> <<n>>]

\* encodeURIComponent on the values sent here: "@" (64) becomes "%40", letters
\* and digits stay.
RECURSIVE encodeURIComponent(_)
encodeURIComponent(text) ==
    IF text = <<>> THEN <<>>
    ELSE (IF Head(text) = 64 THEN <<37, 52, 48>> ELSE <<Head(text)>>)
           \o encodeURIComponent(Tail(text))

\* qList of lines 1850-1857: path + "?", one entry per parameter, "rid=<id>".
\* (First the variant that puts the request id before the parameters.)
QueryListRidFirst(path, params, rid) ==
    <<(<<Lit(path), Lit("?")>>)>>
      \o <<(<<Lit("rid="), Num(rid)>>)>>
      \o [k \in 1..Len(params) |->
            IF params[k][1] # "encryptedLoginSecret"
            THEN <<Lit(params[k][1]), Lit("="), Val(encodeURIComponent(params[k][2]))>>
            ELSE <<Lit("&"), Lit(params[k][1]), Lit("="), Val(params[k][2])>>]
QueryList(path, params, rid) ==
    <<(<<Lit(path), Lit("?")>>)>>
      \o [k \in 1..Len(params) |->
            IF params[k][1] # "encryptedLoginSecret"
            THEN <<Lit(params[k][1]), Lit("="), Val(encodeURIComponent(params[k][2]))>>
            ELSE <<Lit("&"), Lit(params[k][1]), Lit("="), Val(params[k][2])>>]
      \o <<(<<Lit("rid="), Num(rid)>>)>>

\* Array.prototype.join('&')
RECURSIVE JoinAmp(_)
JoinAmp(list) ==
    IF list = <<>> THEN <<>>
    ELSE IF Len(list) = 1 THEN list[1]
    ELSE list[1] \o <<Lit("&")>> \o JoinAmp(Tail(list))

\* sigData of line 1859: qList[0] + qList.slice(1).join('&').
SigData(qList) == qList[1] \o JoinAmp(Tail(qList))

\* _signatureCreate(keyBuffer, data): HMAC-SHA256 as a collision-free function
\* of key and data.
signatureCreate(keyBuffer, data) == [key |-> keyBuffer, data |-> data]
NoSignature == signatureCreate(Null, NoQuery)

\* An HTTP request as fetch sends it.  action is requestApi's argument, which
\* selects the key of the reply; urlAction is the fragment put in the URL.
\* body is the POST body: the envelope {url, rid} as text.  Of a GET, query
\* holds the arguments, text the URL after the base address up to
\* "&signature=", and signature what follows it.
NoReq ==
    [method |-> "", api |-> <<>>, action |-> <<>>, urlAction |-> <<>>, path |-> "",
     query |-> NoQuery, text |-> <<>>, signature |-> NoSignature, body |-> PlainRaw(""),
     ctype |-> "", rid |-> -1]

Envelope(path, rid) == [EmptyObj EXCEPT !.raw = path, !.rid = Some(rid)]

\* The check of lines 1828-1830: the call is refused.  (First the variant
\* that does not exempt the handshake path.)
RequiresConnectionAlways(jdx, path) == ~jdx.connected
RequiresConnection(jdx, path) == ~jdx.connected /\ path # "/my/connect"

\* requestApi up to and including fetch: the connected check, the query and
\* its signature (GET) or the encrypted envelope (POST).  sent = FALSE with
\* err says what it raises before any request is sent.
RequestSend(jdx, path, httpMethod, params, action, apiArg) ==
    LET api == IF apiArg = Null THEN jdx.apiUrl ELSE apiArg
        query == [path |-> path, params |-> params, rid |-> jdx.requestId]
        sigData == SigData(QueryList(path, params, jdx.requestId))
        signKey == IF jdx.serverEncryptionToken = Null
                   THEN jdx.loginSecret
                   ELSE jdx.serverEncryptionToken
        encrypted == encrypt(jdx.connectionType, jdx.deviceEncryptionToken,
                             PlainJson(Envelope(path, jdx.requestId)))
        base == [NoReq EXCEPT !.method = httpMethod, !.api = api, !.action = action,
                              !.path = path, !.rid = jdx.requestId]
    IN  IF RequiresConnection(jdx, path)
        THEN [sent |-> FALSE, err |-> "MYJDConnectionException", req |-> NoReq]
        ELSE IF httpMethod = "GET"
        THEN IF jdx.connectionType = "myjd"
             THEN IF signKey = Null
                  THEN [sent |-> FALSE, err |-> "TypeError", req |-> NoReq]
                  ELSE [sent |-> TRUE, err |-> "",
                        req |-> [base EXCEPT !.query = query, !.text = sigData,
                                   !.signature = signatureCreate(signKey, sigData)]]
             ELSE [sent |-> TRUE, err |-> "",
                   req |-> [base EXCEPT !.query = query, !.text = sigData]]
        ELSE IF ~encrypted.ok
        THEN [sent |-> FALSE, err |-> "DataError", req |-> NoReq]
        ELSE [sent |-> TRUE, err |-> "",
              req |-> [base EXCEPT !.urlAction = action, !.body = encrypted.text,
                                   !.ctype = jdx.contentType]]

\* What comes back from fetch: nothing (a network failure or the timeout) or
\* an HTTP reply.
NoResponse == [kind |-> "none", status |-> 0, body |-> PlainRaw("")]
HttpReply(status, body) == [kind |-> "http", status |-> status, body |-> body]

\* requestApi returns null and leaves the request id alone.  sent is the rid
\* the request carried, seen the rid of the object a success reply decoded to
\* (jsondata['rid'], None if there is none).
NullResult(jdx) ==
    [kind |-> "null", err |-> "", source |-> "", val |-> Scalar(""),
     requestId |-> jdx.requestId, sent |-> 0, seen |-> None]

\* The catch around fetch, lines 1893-1895 and 1934-1936.  (First the variant
\* that lets the failure of fetch propagate.)
FetchFailedRaises(jdx) == [NullResult(jdx) EXCEPT !.kind = "throw", !.err = "TypeError"]
FetchFailed(jdx) == NullResult(jdx)

\* The body of a reply whose status is not 200, lines 1942-1954: parsed as
\* plain JSON, and only if that fails decrypted with the device token and
\* parsed.  ok = FALSE: both failed.  (First the variant that never decrypts.)
DecodeErrorBodyPlainOnly(jdx, body) == JsonParse(body)
DecodeErrorBody(jdx, body) ==
    LET plain == JsonParse(body)
        devDec == decrypt(jdx.connectionType, jdx.deviceEncryptionToken, body)
        devParsed == JsonParse(devDec.text)
    IN  IF plain.ok THEN plain
        ELSE IF devDec.ok THEN devParsed
        ELSE [ok |-> FALSE, val |-> EmptyObj]

\* requestApi from the reply on.  kind is "null" (the no-response sentinel),
\* "value" (val is returned) or "throw" (err is raised, with source for an API
\* error); requestId is the session's request id afterwards.
RequestReceive(jdx, req, resp, now) ==
    LET base == [NullResult(jdx) EXCEPT !.sent = req.rid]
        decoded == DecodeErrorBody(jdx, resp.body)
        errorMsg == decoded.val
        exc == getException(errorMsg.src, errorMsg.type)
        key == IF req.action = Null
               THEN IF jdx.serverEncryptionToken = Null
                    THEN jdx.loginSecret
                    ELSE jdx.serverEncryptionToken
               ELSE jdx.deviceEncryptionToken
        dec == decrypt(jdx.connectionType, key, resp.body)
        parsed == JsonParse(dec.text)
        jsondata == IF parsed.ok THEN parsed.val
                    ELSE IF IsPlain(dec.text) THEN dec.text.val
                    ELSE Scalar("ciphertext")
        seen == IF jsondata.isObj THEN jsondata.rid ELSE None
    IN  IF resp.kind = "none" THEN [FetchFailed(jdx) EXCEPT !.sent = req.rid]
        ELSE IF resp.status # 200
        THEN IF ~decoded.ok
             THEN [base EXCEPT !.kind = "throw", !.err = "MYJDDecodeException"]
             ELSE [base EXCEPT !.kind = "throw", !.err = exc.err, !.source = exc.source]
        ELSE IF ~dec.ok
        THEN [base EXCEPT !.kind = "throw", !.err = "OperationError"]
        ELSE IF jsondata.isObj /\ jsondata.rid # None /\ The(jsondata.rid) # jdx.requestId
        THEN [base EXCEPT !.requestId = now, !.seen = seen]
        ELSE [base EXCEPT !.kind = "value", !.val = jsondata, !.requestId = now,
                          !.seen = seen]

\* ------------------------------------------------- the relay and devices ----
\* Direct addresses the relay may hint.
ConnA == [ip |-> "192.168.0.2", port |-> "3129"]
ConnB == [ip |-> "192.168.0.3", port |-> "3129"]
ConnC == [ip |-> "192.168.0.4", port |-> "3129"]
HintLists == { <<>>, <<ConnA, ConnB>>, <<ConnB, ConnC>> }

RefreshPath == "/device/getDirectConnectionInfos"
ActionPaths == {"/downloadsV2/queryLinks"}

\* The rid a reply object may carry: the one sent or another one.
ReplyRids(req) == {Some(req.rid), Some(req.rid + 1)}

\* The objects a 200 reply to the request may carry.
Payloads(req) ==
    LET withRid(S) == {[j EXCEPT !.rid = r] : j \in S, r \in ReplyRids(req)}
    IN  CASE req.path \in {"/my/connect", "/my/reconnect"} ->
               withRid({[EmptyObj EXCEPT !.sessiontoken = p[1], !.regaintoken = p[2]]
                          : p \in TokenPairs})
          [] req.path = "/my/listdevices" ->
               withRid({[EmptyObj EXCEPT !.list = Some(l)] : l \in DeviceLists})
          [] req.path = "/device/ping" ->
               withRid({[EmptyObj EXCEPT !.data = Some(DataVal(v, <<>>))]
                          : v \in {"pong", ""}})
          [] req.path = RefreshPath ->
               withRid({[EmptyObj EXCEPT !.data = Some(DataVal("object", h))]
                          : h \in HintLists})
          [] req.path \in ActionPaths ->
               withRid({[EmptyObj EXCEPT !.data = Some(DataVal("links", <<>>))]})
          [] OTHER -> withRid({EmptyObj})

\* The error objects a reply may carry.
ErrorObjects ==
    {[EmptyObj EXCEPT !.src = "jd", !.type = t] : t \in {"AUTH_FAILED", "auth_failed", "WEIRD"}}

\* The keys a reply may be encrypted with: those the session holds.
ReplyKeys(jdx) ==
    {jdx.loginSecret, jdx.serverEncryptionToken, jdx.deviceEncryptionToken} \ {Null}

\* A text as the peer may send it: plain, or encrypted with one of the keys.
Sendings(jdx, text) ==
    {text} \cup {[text EXCEPT !.iv = IvOf(k), !.key = KeyOf(k)] : k \in ReplyKeys(jdx)}

\* Everything fetch may come back with.
Responses(jdx, req) ==
    {NoResponse}
      \cup {HttpReply(200, b) :
              b \in UNION {Sendings(jdx, PlainJson(j)) : j \in Payloads(req)}
                      \cup {PlainRaw("pong")}}
      \cup {HttpReply(403, b) :
              b \in UNION {Sendings(jdx, PlainJson(j)) : j \in ErrorObjects}
                      \cup {PlainRaw("<html>")}}

\* Everything fetch may come back with when the peer also sends the bodies
\* it sends with 200 with another success status, 204.
ResponsesAnyStatus(jdx, req) ==
    Responses(jdx, req)
      \cup {HttpReply(204, r.body)
              : r \in {x \in Responses(jdx, req) : x.status = 200}}

\* ------------------------------------------------------------ state ----
VARIABLES
    jd,      \* the MyJDApi object's fields
    clock,   \* Date.now()
    sess,    \* the caller's session-level call in progress, and its outcome
    calls,   \* session-level calls started so far
    dev,     \* the JDDevice handle the caller holds
    bg,      \* the candidate refresh started by the handle's constructor
    act,     \* the caller's action() calls on the handle
    chain    \* history: the token pairs of the successful connect and of the
             \* successful reconnects that followed it, None after anything else

devVars == <<dev, bg, act>>
vars == <<jd, clock, sess, calls, dev, bg, act, chain>>

\* MyJDApi constructor
NewJd ==
    [requestId |-> 1, apiUrl |-> RelayUrl, contentType |-> ContentAes,
     devices |-> None, loginSecret |-> Null, deviceSecret |-> Null,
     sessionToken |-> Null, regainToken |-> Null,
     serverEncryptionToken |-> Null, deviceEncryptionToken |-> Null,
     connected |-> FALSE, connectionType |-> "myjd"]

\* isConnected()
isConnected == jd.connected

\* listDevices()
listDevices == jd.devices

\* A call of the caller: op is the method, pc = "idle" when none is running,
\* out = "return" / "throw" the way the last one ended, err and source the
\* error raised, retKind / ret what was returned.  req is the last request
\* sent, rx what became of it (net: "none", "ok" for status 200, "error";
\* status: the HTTP status of the reply, 0 without one),
\* nreq the requests sent by this call.  The others are the call's locals.
\* body is the reply's body, sent / seen the rids of NullResult, infos the
\* hint list of the object returned (response['data']['infos']).
NoRx == [net |-> "", status |-> 0, kind |-> "", val |-> Scalar(""), body |-> PlainRaw(""),
         sent |-> 0, seen |-> None, infos |-> <<>>]
IdleSess ==
    [op |-> "none", pc |-> "idle", stage |-> "", out |-> "", err |-> "", source |-> "",
     retKind |-> "", ret |-> Scalar(""), req |-> NoReq, rx |-> NoRx, nreq |-> 0,
     email |-> Null, password |-> Null, sessionTokenBuffer |-> Null,
     input |-> Null, response |-> Scalar(""), path |-> "", method |-> "",
     deviceName |-> None, deviceId |-> None, device |-> None]

\* The JDDevice fields of the transport selector.  exists = FALSE: the caller
\* holds no handle yet.  _directConnectionInfo is None (null) or the list of
\* candidate objects, each named by an object id; objects holds the fields
\* {conn, cooldown} of every candidate object still referenced, by the list or
\* by a call in progress.  Both cooldowns are kept in milliseconds.
NoDevice ==
    [exists |-> FALSE, deviceId |-> "", directConnectionInfo |-> None,
     objects |-> <<>>,
     directConnectionEnabled |-> TRUE, directConnectionCooldown |-> 0,
     directConnectionConsecutiveFailures |-> 0]

\* A call on the handle (action, or the constructor's refresh), like sess.
\* data is the payload kept for the return, actionUrl / now / i / conn are
\* action()'s locals (conn is the id of the candidate object held, -1 if none).
\* route is the branch of line 1382 that action() took: "relay" or "direct".
IdleTask ==
    [op |-> "none", pc |-> "idle", stage |-> "", out |-> "", err |-> "", source |-> "",
     data |-> None, req |-> NoReq, rx |-> NoRx, nreq |-> 0, route |-> "",
     path |-> "", method |-> "", actionUrl |-> Null, now |-> 0, i |-> 0, conn |-> -1]

ActIds == {"a1"}

Rx(resp, r) ==
    [net |-> IF resp.kind = "none" THEN "none"
             ELSE IF resp.status = 200 THEN "ok" ELSE "error",
     status |-> resp.status, kind |-> r.kind, val |-> r.val, body |-> resp.body,
     sent |-> r.sent, seen |-> r.seen,
     infos |-> IF r.kind = "value" /\ r.val.data # None
               THEN The(r.val.data).infos ELSE <<>>]
TaskRx(resp, r) == [Rx(resp, r) EXCEPT !.val = Scalar(""), !.body = PlainRaw("")]

\* The session-level call ends: it raises err, or returns.  stage keeps the
\* place it ended at; the request and the locals are gone.
Throw(s, err, source) ==
    [s EXCEPT !.pc = "idle", !.stage = s.pc, !.out = "throw", !.err = err,
              !.source = source, !.req = NoReq, !.input = Null,
              !.sessionTokenBuffer = Null]
Return(s, retKind, ret) ==
    [s EXCEPT !.pc = "idle", !.stage = s.pc, !.out = "return", !.retKind = retKind,
              !.ret = ret, !.req = NoReq, !.input = Null, !.sessionTokenBuffer = Null]

\* The same for a call on the handle.
TaskThrow(t, err, source) ==
    [t EXCEPT !.pc = "idle", !.stage = t.pc, !.out = "throw", !.err = err,
              !.source = source, !.req = NoReq, !.conn = -1, !.i = 0,
              !.actionUrl = Null, !.now = 0]
TaskReturn(t, data) ==
    [t EXCEPT !.pc = "idle", !.stage = t.pc, !.out = "return", !.data = data,
              !.req = NoReq, !.conn = -1, !.i = 0, !.actionUrl = Null, !.now = 0]

\* The history once the session-level call has reached s: a connect that
\* returns starts it, a reconnect that returns extends it, one that raises
\* ends it.
TokensOf(response) ==
    [sessiontoken |-> response.sessiontoken, regaintoken |-> response.regaintoken]
ChainAfter(s) ==
    IF s.pc # "idle" \/ s.op \notin {"connect", "reconnect"} THEN chain
    ELSE IF s.out # "return" THEN None
    ELSE IF s.op = "connect" THEN Some(<<TokensOf(s.response)>>)
    ELSE IF chain = None \/ s.retKind = "true" THEN None
    ELSE Some(Append(The(chain), TokensOf(s.response)))

\* updateRequestId()
updateRequestId(jdx) == [jdx EXCEPT !.requestId = clock]

Init ==
    /\ jd = NewJd
    /\ clock = 1
    /\ sess = IdleSess
    /\ calls = 0
    /\ dev = NoDevice
    /\ bg = IdleTask
    /\ act = [a \in ActIds |-> IdleTask]
    /\ chain = None

CanCall == sess.pc = "idle" /\ calls < MaxCalls

\* Date.now() advances by a millisecond.
Tick ==
    /\ (clock - 1) % Minute < MaxClock
    /\ clock' = clock + 1
    /\ UNCHANGED <<chain, jd, sess, calls, devVars>>

\* Date.now() advances by a minute.
TickMinute ==
    /\ clock \div Minute < MaxMinutes
    /\ clock' = clock + Minute
    /\ UNCHANGED <<chain, jd, sess, calls, devVars>>

\* ----------------------------------------------- _updateEncryptionTokens ----
\* Its first segment, up to the await of the first digest: the call's record
\* afterwards.  In DIRECT_ONLY mode it returns at once, and so does the
\* updateDevices that connect calls next.  hexToBuffer of an absent session
\* token and concatBuffers of a null secret are TypeErrors.
\* The key the server token is ratcheted from, lines 1531-1537.  (First the
\* variant that always starts from the login secret.)
OldTokenLoginSecret(jdx) == jdx.loginSecret
OldToken(jdx) ==
    IF jdx.serverEncryptionToken = Null THEN jdx.loginSecret
    ELSE jdx.serverEncryptionToken

UpdateTokensBegin(jdx, s) ==
    LET oldToken == OldToken(jdx)
        sessionTokenBuffer == hexToBuffer(jdx.sessionToken)
    IN  IF jdx.connectionType = "remoteapi" THEN Return(s, "value", s.response)
        ELSE IF jdx.sessionToken = Null \/ oldToken = Null THEN Throw(s, "TypeError", "")
        ELSE [s EXCEPT !.pc = "serverToken",
                       !.sessionTokenBuffer = sessionTokenBuffer,
                       !.input = concatBuffers(oldToken, sessionTokenBuffer)]

\* The first digest resolves: the server token is stored and the second
\* digest is started on deviceSecret ++ sessionTokenBuffer.
UpdateTokensServer ==
    /\ sess.pc = "serverToken"
    /\ jd' = [jd EXCEPT !.serverEncryptionToken = Digest(sess.input)]
    /\ sess' = IF jd.deviceSecret = Null
               THEN Throw(sess, "TypeError", "")
               ELSE [sess EXCEPT !.pc = "deviceToken",
                       !.input = concatBuffers(jd.deviceSecret, sess.sessionTokenBuffer)]
    /\ chain' = ChainAfter(sess')
    /\ UNCHANGED <<clock, calls, devVars>>

\* updateDevices() up to its fetch, as connect calls it.
UpdateDevicesBegin(jdx, s) ==
    LET snd == RequestSend(jdx, "/my/listdevices", "GET",
                           <<(<<"sessiontoken", jdx.sessionToken>>)>>, Null, Null)
    IN  IF jdx.connectionType = "remoteapi" THEN Return(s, "value", s.response)
        ELSE IF ~snd.sent THEN Throw(s, snd.err, "")
        ELSE [s EXCEPT !.pc = "listdevices", !.req = snd.req, !.nreq = @ + 1]

\* The second digest resolves: the device token is stored; reconnect returns
\* its response, connect goes on to updateDevices.  (First the variant in
\* which reconnect goes on to updateDevices as well.)
UpdateTokensDeviceRefetch ==
    /\ sess.pc = "deviceToken"
    /\ LET jd1 == [jd EXCEPT !.deviceEncryptionToken = Digest(sess.input)]
       IN  /\ jd' = jd1
           /\ sess' = UpdateDevicesBegin(jd1, sess)
    /\ chain' = ChainAfter(sess')
    /\ UNCHANGED <<clock, calls, devVars>>
UpdateTokensDevice ==
    /\ sess.pc = "deviceToken"
    /\ LET jd1 == [jd EXCEPT !.deviceEncryptionToken = Digest(sess.input)]
       IN  /\ jd' = jd1
           /\ sess' = IF sess.op = "reconnect"
                      THEN Return(sess, "value", sess.response)
                      ELSE UpdateDevicesBegin(jd1, sess)
    /\ chain' = ChainAfter(sess')
    /\ UNCHANGED <<clock, calls, devVars>>

\* ------------------------------------------------------------ connect ----
\* connect(email, password) up to the await of the first _secretCreate.
\* (First the variant that leaves the server token of the session before.)
ConnectKeepsServerToken(email, password) ==
    /\ CanCall
    /\ calls' = calls + 1
    /\ jd' = [updateRequestId(jd) EXCEPT
               !.loginSecret = Null, !.deviceSecret = Null, !.sessionToken = Null,
               !.regainToken = Null,
               !.deviceEncryptionToken = Null, !.devices = None,
               !.connected = FALSE, !.connectionType = "myjd"]
    /\ sess' = [IdleSess EXCEPT !.op = "connect", !.pc = "loginSecret",
                                !.email = email, !.password = password]
    /\ chain' = None
    /\ UNCHANGED <<clock, devVars>>
Connect(email, password) ==
    /\ CanCall
    /\ calls' = calls + 1
    /\ jd' = [updateRequestId(jd) EXCEPT
               !.loginSecret = Null, !.deviceSecret = Null, !.sessionToken = Null,
               !.regainToken = Null, !.serverEncryptionToken = Null,
               !.deviceEncryptionToken = Null, !.devices = None,
               !.connected = FALSE, !.connectionType = "myjd"]
    /\ sess' = [IdleSess EXCEPT !.op = "connect", !.pc = "loginSecret",
                                !.email = email, !.password = password]
    /\ chain' = None
    /\ UNCHANGED <<clock, devVars>>

ConnectLoginSecret ==
    /\ sess.pc = "loginSecret"
    /\ jd' = [jd EXCEPT !.loginSecret = secretCreate(sess.email, sess.password, DomainServer)]
    /\ sess' = [sess EXCEPT !.pc = "deviceSecret"]
    /\ UNCHANGED <<chain, clock, calls, devVars>>

\* The device secret is stored and the /my/connect handshake is sent.
ConnectDeviceSecret ==
    /\ sess.pc = "deviceSecret"
    /\ LET jd1 == [jd EXCEPT
                     !.deviceSecret = secretCreate(sess.email, sess.password, DomainDevice)]
           snd == RequestSend(jd1, "/my/connect", "GET",
                              <<(<<"email", sess.email>>), (<<"appkey", AppKey>>)>>,
                              Null, Null)
       IN  /\ jd' = jd1
           /\ sess' = IF ~snd.sent THEN Throw(sess, snd.err, "")
                      ELSE [sess EXCEPT !.pc = "handshake", !.req = snd.req, !.nreq = @ + 1]
    /\ chain' = ChainAfter(sess')
    /\ UNCHANGED <<clock, calls, devVars>>

\* The handshake comes back: lines 1667-1671.
ConnectHandshake ==
    /\ sess.pc = "handshake"
    /\ \E resp \in Responses(jd, sess.req) :
       LET r == RequestReceive(jd, sess.req, resp, clock)
           s1 == [sess EXCEPT !.rx = Rx(resp, r)]
           jd0 == [jd EXCEPT !.requestId = r.requestId]
           jd1 == updateRequestId([jd0 EXCEPT !.connected = TRUE])
           jd2 == [jd1 EXCEPT !.sessionToken = r.val.sessiontoken,
                              !.regainToken = r.val.regaintoken]
       IN  IF r.kind = "throw"
           THEN jd' = jd0 /\ sess' = Throw(s1, r.err, r.source)
           ELSE IF r.kind = "null"
           THEN jd' = jd1 /\ sess' = Throw(s1, "TypeError", "")
           ELSE /\ jd' = jd2
                /\ sess' = UpdateTokensBegin(jd2, [s1 EXCEPT !.response = r.val])
    /\ chain' = ChainAfter(sess')
    /\ UNCHANGED <<clock, calls, devVars>>

\* this._devices = response["list"].  (First the variant that keeps the
\* old list.)
StoreDevicesKeepsOld(jdx, response) == jdx
StoreDevices(jdx, response) == [jdx EXCEPT !.devices = response.list]

\* The device list comes back: lines 1773-1774, then connect returns.
ConnectListDevices ==
    /\ sess.pc = "listdevices"
    /\ \E resp \in Responses(jd, sess.req) :
       LET r == RequestReceive(jd, sess.req, resp, clock)
           s1 == [sess EXCEPT !.rx = Rx(resp, r)]
           jd0 == [jd EXCEPT !.requestId = r.requestId]
           jd1 == updateRequestId(jd0)
       IN  IF r.kind = "throw"
           THEN jd' = jd0 /\ sess' = Throw(s1, r.err, r.source)
           ELSE IF r.kind = "null"
           THEN jd' = jd1 /\ sess' = Throw(s1, "TypeError", "")
           ELSE /\ jd' = StoreDevices(jd1, r.val)
                /\ sess' = Return(s1, "value", sess.response)
    /\ chain' = ChainAfter(sess')
    /\ UNCHANGED <<clock, calls, devVars>>

\* ------------------------------------------------------ directConnect ----
DirectUrl(ip, port) == <<"http://", ip, ":", port>>

\* directConnect(ip, port, timeout) up to the fetch of the ping.
DirectConnect(ip) ==
    /\ CanCall
    /\ calls' = calls + 1
    /\ LET jd1 == [updateRequestId(jd) EXCEPT
                     !.loginSecret = Null, !.deviceSecret = Null, !.sessionToken = Null,
                     !.regainToken = Null, !.serverEncryptionToken = Null,
                     !.deviceEncryptionToken = Null,
                     !.devices = Some(<<[name |-> ip, id |-> "direct", type |-> "jd"]>>),
                     !.connectionType = "remoteapi",
                     !.apiUrl = DirectUrl(ip, DirectPort),
                     !.contentType = ContentJson,
                     !.connected = TRUE]
           snd == RequestSend(jd1, "/device/ping", "GET", <<>>, Null, Null)
           s1 == [IdleSess EXCEPT !.op = "directConnect"]
       IN  /\ jd' = jd1
           /\ sess' = IF ~snd.sent THEN Throw(s1, snd.err, "")
                      ELSE [s1 EXCEPT !.pc = "ping", !.req = snd.req, !.nreq = @ + 1]
    /\ chain' = None
    /\ UNCHANGED <<clock, devVars>>

\* The ping comes back: lines 1709-1713.
DirectConnectPing ==
    /\ sess.pc = "ping"
    /\ \E resp \in Responses(jd, sess.req) :
       LET r == RequestReceive(jd, sess.req, resp, clock)
           s1 == [sess EXCEPT !.rx = Rx(resp, r)]
           jd0 == [jd EXCEPT !.requestId = r.requestId]
           response == r.val.data
       IN  IF r.kind = "throw"
           THEN jd' = jd0 /\ sess' = Throw(s1, r.err, r.source)
           ELSE IF r.kind = "null"
           THEN jd' = jd0 /\ sess' = Throw(s1, "TypeError", "")
           ELSE /\ jd' = updateRequestId([jd0 EXCEPT !.connected = Truthy(response)])
                /\ sess' = Return(s1, "value", r.val)
    /\ chain' = None
    /\ UNCHANGED <<clock, calls, devVars>>

\* ---------------------------------------------------------- reconnect ----
\* reconnect() up to the fetch of /my/reconnect.
Reconnect ==
    /\ CanCall
    /\ calls' = calls + 1
    /\ LET snd == RequestSend(jd, "/my/reconnect", "GET",
                              <<(<<"sessiontoken", jd.sessionToken>>),
                                (<<"regaintoken", jd.regainToken>>)>>, Null, Null)
           s1 == [IdleSess EXCEPT !.op = "reconnect"]
       IN  sess' = IF jd.connectionType = "remoteapi" THEN Return(s1, "true", Scalar("true"))
                   ELSE IF ~snd.sent THEN Throw(s1, snd.err, "")
                   ELSE [s1 EXCEPT !.pc = "reconnect", !.req = snd.req, !.nreq = @ + 1]
    /\ chain' = ChainAfter(sess')
    /\ UNCHANGED <<jd, clock, devVars>>

\* /my/reconnect comes back: lines 1729-1732.  (First the variant that drops
\* the session when the call fails.)
ReconnectResponseDropsSession ==
    /\ sess.pc = "reconnect"
    /\ \E resp \in Responses(jd, sess.req) :
       LET r == RequestReceive(jd, sess.req, resp, clock)
           s1 == [sess EXCEPT !.rx = Rx(resp, r)]
           jd0 == [jd EXCEPT !.requestId = r.requestId]
           jd1 == updateRequestId(jd0)
           jd2 == [jd1 EXCEPT !.sessionToken = r.val.sessiontoken,
                              !.regainToken = r.val.regaintoken]
       IN  IF r.kind = "throw"
           THEN /\ jd' = [jd0 EXCEPT !.connected = FALSE]
                /\ sess' = Throw(s1, r.err, r.source)
           ELSE IF r.kind = "null"
           THEN /\ jd' = [jd1 EXCEPT !.connected = FALSE]
                /\ sess' = Throw(s1, "TypeError", "")
           ELSE /\ jd' = jd2
                /\ sess' = UpdateTokensBegin(jd2, [s1 EXCEPT !.response = r.val])
    /\ chain' = ChainAfter(sess')
    /\ UNCHANGED <<clock, calls, devVars>>
ReconnectResponse ==
    /\ sess.pc = "reconnect"
    /\ \E resp \in Responses(jd, sess.req) :
       LET r == RequestReceive(jd, sess.req, resp, clock)
           s1 == [sess EXCEPT !.rx = Rx(resp, r)]
           jd0 == [jd EXCEPT !.requestId = r.requestId]
           jd1 == updateRequestId(jd0)
           jd2 == [jd1 EXCEPT !.sessionToken = r.val.sessiontoken,
                              !.regainToken = r.val.regaintoken]
       IN  IF r.kind = "throw"
           THEN jd' = jd0 /\ sess' = Throw(s1, r.err, r.source)
           ELSE IF r.kind = "null"
           THEN jd' = jd1 /\ sess' = Throw(s1, "TypeError", "")
           ELSE /\ jd' = jd2
                /\ sess' = UpdateTokensBegin(jd2, [s1 EXCEPT !.response = r.val])
    /\ chain' = ChainAfter(sess')
    /\ UNCHANGED <<clock, calls, devVars>>

\* --------------------------------------------------------- disconnect ----
\* Lines 1751-1759.
ClearSession(jdx) ==
    [updateRequestId(jdx) EXCEPT
       !.loginSecret = Null, !.deviceSecret = Null, !.sessionToken = Null,
       !.regainToken = Null, !.serverEncryptionToken = Null,
       !.deviceEncryptionToken = Null, !.devices = None, !.connected = FALSE]

\* disconnect() up to the fetch of /my/disconnect; in DIRECT_ONLY mode all of it.
Disconnect ==
    /\ CanCall
    /\ calls' = calls + 1
    /\ LET snd == RequestSend(jd, "/my/disconnect", "GET",
                              <<(<<"sessiontoken", jd.sessionToken>>)>>, Null, Null)
           s1 == [IdleSess EXCEPT !.op = "disconnect"]
       IN  IF jd.connectionType = "remoteapi"
           THEN jd' = ClearSession(jd) /\ sess' = Return(s1, "true", Scalar("true"))
           ELSE /\ jd' = jd
                /\ sess' = IF ~snd.sent THEN Throw(s1, snd.err, "")
                           ELSE [s1 EXCEPT !.pc = "disconnect", !.req = snd.req,
                                           !.nreq = @ + 1]
    /\ chain' = None
    /\ UNCHANGED <<clock, devVars>>

\* /my/disconnect comes back.
DisconnectResponse ==
    /\ sess.pc = "disconnect"
    /\ \E resp \in Responses(jd, sess.req) :
       LET r == RequestReceive(jd, sess.req, resp, clock)
           s1 == [sess EXCEPT !.rx = Rx(resp, r)]
           jd0 == [jd EXCEPT !.requestId = r.requestId]
       IN  IF r.kind = "throw"
           THEN jd' = jd0 /\ sess' = Throw(s1, r.err, r.source)
           ELSE /\ jd' = ClearSession(jd0)
                /\ sess' = Return(s1, r.kind, r.val)
    /\ chain' = None
    /\ UNCHANGED <<clock, calls, devVars>>

\* --------------------------------------------------------- requestApi ----
\* The paths and methods a caller hands to requestApi directly.
RawPaths == {"/my/connect", "/my/listdevices"}
Methods == {"GET", "POST"}

\* requestApi(path, httpMethod) called by the caller, up to its fetch.
RequestApi(path, httpMethod) ==
    /\ CanCall
    /\ calls' = calls + 1
    /\ LET snd == RequestSend(jd, path, httpMethod, <<>>, Null, Null)
           s1 == [IdleSess EXCEPT !.op = "requestApi", !.path = path, !.method = httpMethod]
       IN  sess' = IF ~snd.sent THEN Throw(s1, snd.err, "")
                   ELSE [s1 EXCEPT !.pc = "requestApi", !.req = snd.req, !.nreq = @ + 1]
    /\ UNCHANGED <<chain, jd, clock, devVars>>

\* The reply to the caller's requestApi.
RequestApiResponse ==
    /\ sess.pc = "requestApi"
    /\ \E resp \in Responses(jd, sess.req) :
       LET r == RequestReceive(jd, sess.req, resp, clock)
           s1 == [sess EXCEPT !.rx = Rx(resp, r)]
       IN  /\ jd' = [jd EXCEPT !.requestId = r.requestId]
           /\ sess' = IF r.kind = "throw" THEN Throw(s1, r.err, r.source)
                      ELSE Return(s1, r.kind, r.val)
    /\ UNCHANGED <<chain, clock, calls, devVars>>

\* ------------------------------------------- replies of any status ----
\* requestApi on an established relay session, answered with any status.
InitStatus ==
    /\ jd = [NewJd EXCEPT
               !.loginSecret = secretCreate(<<65>>, <<112>>, DomainServer),
               !.deviceSecret = secretCreate(<<65>>, <<112>>, DomainDevice),
               !.sessionToken = <<10, 10>>, !.regainToken = <<12, 12>>,
               !.serverEncryptionToken =
                   Digest(concatBuffers(secretCreate(<<65>>, <<112>>, DomainServer),
                                        hexToBuffer(<<10, 10>>))),
               !.deviceEncryptionToken =
                   Digest(concatBuffers(secretCreate(<<65>>, <<112>>, DomainDevice),
                                        hexToBuffer(<<10, 10>>))),
               !.devices = Some(<<D1, D2>>), !.connected = TRUE]
    /\ clock = 1
    /\ sess = IdleSess
    /\ calls = 0
    /\ dev = NoDevice
    /\ bg = IdleTask
    /\ act = [a \in ActIds |-> IdleTask]
    /\ chain = Some(<<[sessiontoken |-> <<10, 10>>, regaintoken |-> <<12, 12>>]>>)

\* The reply to the caller's requestApi, of any status.
RequestApiResponseAnyStatus ==
    /\ sess.pc = "requestApi"
    /\ \E resp \in ResponsesAnyStatus(jd, sess.req) :
       LET r == RequestReceive(jd, sess.req, resp, clock)
           s1 == [sess EXCEPT !.rx = Rx(resp, r)]
       IN  /\ jd' = [jd EXCEPT !.requestId = r.requestId]
           /\ sess' = IF r.kind = "throw" THEN Throw(s1, r.err, r.source)
                      ELSE Return(s1, r.kind, r.val)
    /\ UNCHANGED <<chain, clock, calls, devVars>>

NextStatus ==
    \/ \E path \in RawPaths, m \in Methods : RequestApi(path, m)
    \/ RequestApiResponseAnyStatus

SpecStatus == InitStatus /\ [][NextStatus]_vars

\* ----------------------------------------------------------- JDDevice ----

\* _actionUrl(): '/t_<sessionToken>_<deviceId>'.  (First the variant that
\* keeps the session token of the session the handle was created in.)
ActionUrlAtCreation(jdx, devx) == <<"/t_", <<10, 10>>, "_", devx.deviceId>>
ActionUrl(jdx, devx) == <<"/t_", jdx.sessionToken, "_", devx.deviceId>>

\* JDDevice constructor, before its call of _refreshDirectConnections.
NewDevice(deviceDict) == [NoDevice EXCEPT !.exists = TRUE, !.deviceId = deviceDict.id]

\* The ids of the candidate objects that calls in progress hold.
HeldBy(actx) == {actx[a].conn : a \in DOMAIN actx} \ {-1}

\* The n smallest object ids not in used, from `from` on.
RECURSIVE FreshOids(_, _, _)
FreshOids(used, n, from) ==
    IF n = 0 THEN <<>>
    ELSE IF from \in used THEN FreshOids(used, n, from + 1)
    ELSE <<from>> \o FreshOids(used \cup {from}, n - 1, from + 1)

Range(seq) == {seq[k] : k \in DOMAIN seq}

\* The handle with the objects no longer referenced dropped.
Collect(devx, actx) ==
    LET live == (IF devx.directConnectionInfo = None THEN {}
                 ELSE Range(The(devx.directConnectionInfo))) \cup HeldBy(actx)
    IN  [devx EXCEPT !.objects = [o \in (DOMAIN @) \cap live |-> @[o]]]

\* The filter of lines 1332-1339: the tracked candidates that are still
\* hinted, and the hints left over once every hint equal to a kept candidate
\* is taken out.
RECURSIVE FilterHinted(_, _, _)
FilterHinted(objects, info, directInfo) ==
    IF info = <<>> THEN [kept |-> <<>>, rest |-> directInfo]
    ELSE LET conn == objects[Head(info)].conn
             exists == \E k \in DOMAIN directInfo : directInfo[k] = conn
             left == IF exists
                     THEN SelectSeq(directInfo, LAMBDA d : d # conn)
                     ELSE directInfo
             tail == FilterHinted(objects, Tail(info), left)
         IN  [kept |-> (IF exists THEN <<Head(info)>> ELSE <<>>) \o tail.kept,
              rest |-> tail.rest]

\* _updateDirectConnections(directInfo).  (First the variant that always
\* takes the branch of lines 1324-1329: the hints replace the list.)
updateDirectConnectionsReplace(devx, actx, directInfo) ==
    LET oids == FreshOids((DOMAIN devx.objects) \cup HeldBy(actx), Len(directInfo), 0)
        new == [k \in 1..Len(directInfo) |-> [conn |-> directInfo[k], cooldown |-> 0]]
    IN  Collect([devx EXCEPT
                   !.directConnectionInfo = Some(oids),
                   !.objects = [o \in (DOMAIN @) \cup Range(oids) |->
                                  IF o \in Range(oids)
                                  THEN new[CHOOSE k \in DOMAIN oids : oids[k] = o]
                                  ELSE @[o]]],
                actx)
updateDirectConnections(devx, actx, directInfo) ==
    LET old == IF devx.directConnectionInfo = None THEN <<>>
               ELSE The(devx.directConnectionInfo)
        f == FilterHinted(devx.objects, old, directInfo)
        added == IF devx.directConnectionInfo = None THEN directInfo ELSE f.rest
        kept == IF devx.directConnectionInfo = None THEN <<>> ELSE f.kept
        oids == FreshOids((DOMAIN devx.objects) \cup HeldBy(actx), Len(added), 0)
        new == [k \in 1..Len(added) |-> [conn |-> added[k], cooldown |-> 0]]
    IN  Collect([devx EXCEPT
                   !.directConnectionInfo = Some(kept \o oids),
                   !.objects = [o \in (DOMAIN @) \cup Range(oids) |->
                                  IF o \in Range(oids)
                                  THEN new[CHOOSE k \in DOMAIN oids : oids[k] = o]
                                  ELSE @[o]]],
                actx)

\* _refreshDirectConnections() up to its fetch.  done is the record of the
\* call once the refresh is over.  (First the variant without the early
\* return of lines 1305-1307.)
RefreshBeginAnyMode(jdx, devx, t, done) ==
    LET snd == RequestSend(jdx, RefreshPath, "POST", Null, ActionUrl(jdx, devx), Null)
    IN  IF ~snd.sent THEN TaskThrow(t, snd.err, "")
        ELSE [t EXCEPT !.pc = "refresh", !.req = snd.req, !.nreq = @ + 1]
RefreshBegin(jdx, devx, t, done) ==
    LET snd == RequestSend(jdx, RefreshPath, "POST", Null, ActionUrl(jdx, devx), Null)
    IN  IF jdx.connectionType = "remoteapi" THEN done
        ELSE IF ~snd.sent THEN TaskThrow(t, snd.err, "")
        ELSE [t EXCEPT !.pc = "refresh", !.req = snd.req, !.nreq = @ + 1]

\* _refreshDirectConnections() from the reply on: the handle afterwards.
RefreshEnd(devx, actx, r) ==
    IF r.kind = "value" /\ r.val.data # None /\ The(r.val.data).infos # <<>>
    THEN updateDirectConnections(devx, actx, The(r.val.data).infos)
    ELSE devx

DeviceIdle == bg.pc = "idle" /\ \A a \in ActIds : act[a].pc = "idle"

\* getDevice(deviceName, deviceId): None is a null selector.  found is the
\* entry the loops of lines 1797-1808 stop at.
GetDevice(deviceName, deviceId) ==
    /\ CanCall
    /\ DeviceIdle
    /\ calls' = calls + 1
    /\ LET s1 == [IdleSess EXCEPT !.op = "getDevice", !.deviceName = deviceName,
                                  !.deviceId = deviceId]
           devices == The(jd.devices)
           match(d) == IF deviceId # None THEN d.id = The(deviceId)
                       ELSE IF deviceName # None THEN d.name = The(deviceName)
                       ELSE TRUE
           hits == {k \in DOMAIN devices : match(devices[k])}
           found == devices[CHOOSE k \in hits : \A h \in hits : k <= h]
           handle == NewDevice(found)
       IN  IF ~isConnected
           THEN /\ sess' = Throw(s1, "MYJDConnectionException", "")
                /\ UNCHANGED <<dev, bg>>
           ELSE IF jd.devices = None
           THEN /\ sess' = Throw(s1, "TypeError", "")
                /\ UNCHANGED <<dev, bg>>
           ELSE IF hits = {}
           THEN /\ sess' = Throw(s1, "MYJDDeviceNotFoundException", "")
                /\ UNCHANGED <<dev, bg>>
           ELSE /\ sess' = [Return(s1, "device", Scalar("")) EXCEPT !.device = Some(found)]
                /\ dev' = handle
                /\ bg' = RefreshBegin(jd, handle, [IdleTask EXCEPT !.op = "refresh"],
                                      TaskReturn([IdleTask EXCEPT !.op = "refresh"], None))
    /\ UNCHANGED <<chain, jd, clock, act>>

\* The reply to the constructor's refresh.
RefreshResponse ==
    /\ bg.pc = "refresh"
    /\ \E resp \in Responses(jd, bg.req) :
       LET r == RequestReceive(jd, bg.req, resp, clock)
           t1 == [bg EXCEPT !.rx = TaskRx(resp, r)]
       IN  /\ jd' = [jd EXCEPT !.requestId = r.requestId]
           /\ bg' = IF r.kind = "throw" THEN TaskThrow(t1, r.err, r.source)
                    ELSE TaskReturn(t1, None)
           /\ dev' = RefreshEnd(dev, act, r)
    /\ UNCHANGED <<chain, clock, sess, calls, act>>

\* ------------------------------------------------------------- action ----
DirectApi(conn) == <<"http://", conn.ip, ":", conn.port>>

SetTask(a, t) == [act EXCEPT ![a] = t]

\* Step 3 of action(), lines 1416-1420: the counter and the device-level
\* cooldown are raised and the relay action path is tried.
ActionFallback(jdx, devx, t) ==
    LET failures == devx.directConnectionConsecutiveFailures + 1
        dev1 == [devx EXCEPT
                   !.directConnectionConsecutiveFailures = failures,
                   !.directConnectionCooldown = clock + Minute * failures]
        snd == RequestSend(jdx, t.path, t.method, <<>>, t.actionUrl, Null)
        t1 == [t EXCEPT !.conn = -1]
    IN  [dev |-> dev1,
         task |-> IF ~snd.sent THEN TaskThrow(t1, snd.err, "")
                  ELSE [t1 EXCEPT !.pc = "fallback", !.req = snd.req, !.nreq = @ + 1]]

\* The loop of lines 1395-1413 from index `from` (1-based) up to its next
\* fetch: the first candidate whose cooldown is over is tried; with none left
\* step 3 follows.  A list that is null by now makes .length a TypeError.
\* (First the variant that goes back to the head of the list every time.)
ActionDirectFromStart(jdx, devx, t, from) ==
    LET info == The(devx.directConnectionInfo)
        i == 1
        conn == devx.objects[info[i]].conn
        snd == RequestSend(jdx, t.path, t.method, <<>>, t.actionUrl, DirectApi(conn))
    IN  IF devx.directConnectionInfo = None
        THEN [dev |-> devx, task |-> TaskThrow(t, "TypeError", "")]
        ELSE IF info = <<>> THEN ActionFallback(jdx, devx, t)
        ELSE [dev |-> devx,
              task |-> IF ~snd.sent THEN TaskThrow(t, snd.err, "")
                       ELSE [t EXCEPT !.pc = "direct", !.i = i, !.conn = info[i],
                                      !.req = snd.req, !.nreq = @ + 1]]
ActionDirect(jdx, devx, t, from) ==
    LET info == The(devx.directConnectionInfo)
        eligible == {k \in from..Len(info) : clock > devx.objects[info[k]].cooldown}
        i == CHOOSE k \in eligible : \A h \in eligible : k <= h
        conn == devx.objects[info[i]].conn
        snd == RequestSend(jdx, t.path, t.method, <<>>, t.actionUrl, DirectApi(conn))
    IN  IF devx.directConnectionInfo = None
        THEN [dev |-> devx, task |-> TaskThrow(t, "TypeError", "")]
        ELSE IF eligible = {} THEN ActionFallback(jdx, devx, t)
        ELSE [dev |-> devx,
              task |-> IF ~snd.sent THEN TaskThrow(t, snd.err, "")
                       ELSE [t EXCEPT !.pc = "direct", !.i = i, !.conn = info[i],
                                      !.req = snd.req, !.nreq = @ + 1]]

\* action(path, params, httpAction) up to its first fetch.
Action(a, path, httpAction) ==
    /\ dev.exists
    /\ act[a].pc = "idle"
    /\ calls < MaxCalls
    /\ calls' = calls + 1
    /\ LET actionUrl == IF jd.connectionType # "remoteapi" THEN ActionUrl(jd, dev) ELSE Null
           relay == \/ ~dev.directConnectionEnabled
                    \/ dev.directConnectionInfo = None
                    \/ clock < dev.directConnectionCooldown
           t == [IdleTask EXCEPT !.op = "action", !.path = path, !.method = httpAction,
                                 !.actionUrl = actionUrl, !.now = clock,
                                 !.route = IF relay THEN "relay" ELSE "direct"]
           snd == RequestSend(jd, path, httpAction, <<>>, actionUrl, Null)
           direct == ActionDirect(jd, dev, t, 1)
       IN  IF relay
           THEN /\ act' = SetTask(a, IF ~snd.sent THEN TaskThrow(t, snd.err, "")
                                     ELSE [t EXCEPT !.pc = "relay", !.req = snd.req,
                                                    !.nreq = @ + 1])
                /\ dev' = dev
           ELSE /\ act' = SetTask(a, direct.task)
                /\ dev' = Collect(direct.dev, act')
    /\ UNCHANGED <<chain, jd, clock, sess, bg>>

\* The payload action() returns: response['data'].
Payload(t, r) == TaskReturn(t, r.val.data)

\* The relay answers the request of step 1: lines 1385-1392.
ActionRelayResponse(a) ==
    /\ act[a].pc = "relay"
    /\ \E resp \in Responses(jd, act[a].req) :
       LET r == RequestReceive(jd, act[a].req, resp, clock)
           t1 == [act[a] EXCEPT !.rx = TaskRx(resp, r)]
           jd1 == [jd EXCEPT !.requestId = r.requestId]
       IN  /\ jd' = jd1
           /\ act' = SetTask(a,
                IF r.kind = "throw" THEN TaskThrow(t1, r.err, r.source)
                ELSE IF r.kind = "null" THEN TaskThrow(t1, "MYJDConnectionException", "")
                ELSE IF dev.directConnectionEnabled /\ clock >= dev.directConnectionCooldown
                THEN RefreshBegin(jd1, dev, [t1 EXCEPT !.data = r.val.data], Payload(t1, r))
                ELSE Payload(t1, r))
    /\ UNCHANGED <<chain, clock, sess, calls, dev, bg>>

\* The relay answers the request of step 3: lines 1421-1425.
\* (First the variant in which an answer of the relay clears the counter.)
ActionFallbackResponseResets(a) ==
    /\ act[a].pc = "fallback"
    /\ \E resp \in Responses(jd, act[a].req) :
       LET r == RequestReceive(jd, act[a].req, resp, clock)
           t1 == [act[a] EXCEPT !.rx = TaskRx(resp, r)]
           jd1 == [jd EXCEPT !.requestId = r.requestId]
       IN  /\ jd' = jd1
           /\ act' = SetTask(a,
                IF r.kind = "throw" THEN TaskThrow(t1, r.err, r.source)
                ELSE IF r.kind = "null" THEN TaskThrow(t1, "MYJDConnectionException", "")
                ELSE RefreshBegin(jd1, dev, [t1 EXCEPT !.data = r.val.data], Payload(t1, r)))
           /\ dev' = IF r.kind = "value"
                     THEN [dev EXCEPT !.directConnectionConsecutiveFailures = 0]
                     ELSE dev
    /\ UNCHANGED <<chain, clock, sess, calls, bg>>
ActionFallbackResponse(a) ==
    /\ act[a].pc = "fallback"
    /\ \E resp \in Responses(jd, act[a].req) :
       LET r == RequestReceive(jd, act[a].req, resp, clock)
           t1 == [act[a] EXCEPT !.rx = TaskRx(resp, r)]
           jd1 == [jd EXCEPT !.requestId = r.requestId]
       IN  /\ jd' = jd1
           /\ act' = SetTask(a,
                IF r.kind = "throw" THEN TaskThrow(t1, r.err, r.source)
                ELSE IF r.kind = "null" THEN TaskThrow(t1, "MYJDConnectionException", "")
                ELSE RefreshBegin(jd1, dev, [t1 EXCEPT !.data = r.val.data], Payload(t1, r)))
    /\ UNCHANGED <<chain, clock, sess, calls, dev, bg>>

\* The refresh that action() awaits comes back; action() returns the payload.
ActionRefreshResponse(a) ==
    /\ act[a].pc = "refresh"
    /\ \E resp \in Responses(jd, act[a].req) :
       LET r == RequestReceive(jd, act[a].req, resp, clock)
           t1 == [act[a] EXCEPT !.rx = TaskRx(resp, r)]
       IN  /\ jd' = [jd EXCEPT !.requestId = r.requestId]
           /\ act' = SetTask(a, IF r.kind = "throw" THEN TaskThrow(t1, r.err, r.source)
                                ELSE TaskReturn(t1, t1.data))
           /\ dev' = RefreshEnd(dev, act', r)
    /\ UNCHANGED <<chain, clock, sess, calls, bg>>

\* splice(i, 1) then unshift(conn) on the candidate list (i is 1-based here).
\* (First the variant without the splice.)
MoveToFrontUnspliced(info, i, conn) == <<conn>> \o info
MoveToFront(info, i, conn) ==
    <<conn>> \o [k \in 1..(Len(info) - (IF i <= Len(info) THEN 1 ELSE 0)) |->
                   IF k < i THEN info[k] ELSE info[k + 1]]

\* A direct candidate answers: lines 1402-1411, then the loop goes on.
\* (First the variant that takes an error reply for no response.)
ActionDirectResponseGoesOn(a) ==
    /\ act[a].pc = "direct"
    /\ \E resp \in Responses(jd, act[a].req) :
       LET r == RequestReceive(jd, act[a].req, resp, clock)
           t == act[a]
           t1 == [t EXCEPT !.rx = TaskRx(resp, r)]
           jd1 == [jd EXCEPT !.requestId = r.requestId]
           cooled == [dev EXCEPT !.objects[t.conn].cooldown = clock + Minute]
           next == ActionDirect(jd1, cooled, t1, t.i + 1)
       IN  /\ jd' = jd1
           /\ IF r.kind = "value"
              THEN IF dev.directConnectionInfo = None
                   THEN /\ act' = SetTask(a, TaskThrow(t1, "TypeError", ""))
                        /\ dev' = Collect(dev, act')
                   ELSE /\ act' = SetTask(a, Payload(t1, r))
                        /\ dev' = Collect(
                               [dev EXCEPT
                                  !.directConnectionInfo =
                                      Some(MoveToFront(The(@), t.i, t.conn)),
                                  !.directConnectionConsecutiveFailures = 0],
                               act')
              ELSE /\ act' = SetTask(a, next.task)
                   /\ dev' = Collect(next.dev, act')
    /\ UNCHANGED <<chain, clock, sess, calls, bg>>
ActionDirectResponse(a) ==
    /\ act[a].pc = "direct"
    /\ \E resp \in Responses(jd, act[a].req) :
       LET r == RequestReceive(jd, act[a].req, resp, clock)
           t == act[a]
           t1 == [t EXCEPT !.rx = TaskRx(resp, r)]
           jd1 == [jd EXCEPT !.requestId = r.requestId]
           cooled == [dev EXCEPT !.objects[t.conn].cooldown = clock + Minute]
           next == ActionDirect(jd1, cooled, t1, t.i + 1)
       IN  /\ jd' = jd1
           /\ IF r.kind = "throw"
              THEN /\ act' = SetTask(a, TaskThrow(t1, r.err, r.source))
                   /\ dev' = Collect(dev, act')
              ELSE IF r.kind = "value"
              THEN IF dev.directConnectionInfo = None
                   THEN /\ act' = SetTask(a, TaskThrow(t1, "TypeError", ""))
                        /\ dev' = Collect(dev, act')
                   ELSE /\ act' = SetTask(a, Payload(t1, r))
                        /\ dev' = Collect(
                               [dev EXCEPT
                                  !.directConnectionInfo =
                                      Some(MoveToFront(The(@), t.i, t.conn)),
                                  !.directConnectionConsecutiveFailures = 0],
                               act')
              ELSE /\ act' = SetTask(a, next.task)
                   /\ dev' = Collect(next.dev, act')
    /\ UNCHANGED <<chain, clock, sess, calls, bg>>

\* ------------------------------------------- enabling and disabling ----
\* disableDirectConnection(): synchronous, whatever is in flight.
DisableDirectConnection ==
    /\ dev.exists
    /\ calls < MaxCalls
    /\ calls' = calls + 1
    /\ dev' = Collect([dev EXCEPT !.directConnectionEnabled = FALSE,
                                  !.directConnectionInfo = None], act)
    /\ UNCHANGED <<chain, jd, clock, sess, bg, act>>

\* enableDirectConnection() up to the fetch of its refresh; the refresh then
\* goes on like the constructor's.  (One refresh of this kind at a time.)
EnableDirectConnection ==
    /\ dev.exists
    /\ bg.pc = "idle"
    /\ calls < MaxCalls
    /\ calls' = calls + 1
    /\ dev' = [dev EXCEPT !.directConnectionEnabled = TRUE]
    /\ bg' = RefreshBegin(jd, dev', [IdleTask EXCEPT !.op = "enable"],
                          TaskReturn([IdleTask EXCEPT !.op = "enable"], None))
    /\ UNCHANGED <<chain, jd, clock, sess, act>>

\* ------------------------------------------ the handle on a relay session ----
\* The session after connect("A", "p") answered with the first token pair and
\* the list [D1, D2], and the handle that getDevice() then returns, with the
\* refresh its constructor started still in flight.
ConnectedJd ==
    LET login == secretCreate(<<65>>, <<112>>, DomainServer)
        device == secretCreate(<<65>>, <<112>>, DomainDevice)
        token == <<10, 10>>
    IN  [NewJd EXCEPT
           !.loginSecret = login, !.deviceSecret = device,
           !.sessionToken = token, !.regainToken = <<12, 12>>,
           !.serverEncryptionToken = Digest(concatBuffers(login, hexToBuffer(token))),
           !.deviceEncryptionToken = Digest(concatBuffers(device, hexToBuffer(token))),
           !.devices = Some(<<D1, D2>>), !.connected = TRUE]

InitDevice ==
    /\ jd = ConnectedJd
    /\ clock = 1
    /\ sess = IdleSess
    /\ calls = 0
    /\ dev = NewDevice(D1)
    /\ bg = RefreshBegin(ConnectedJd, NewDevice(D1), [IdleTask EXCEPT !.op = "refresh"],
                         TaskReturn([IdleTask EXCEPT !.op = "refresh"], None))
    /\ act = [a \in ActIds |-> IdleTask]
    /\ chain = Some(<<[sessiontoken |-> <<10, 10>>, regaintoken |-> <<12, 12>>]>>)

NextDevice ==
    \/ Tick
    \/ TickMinute
    \/ RefreshResponse
    \/ \E a \in ActIds, path \in ActionPaths : Action(a, path, "POST")
    \/ \E a \in ActIds : ActionRelayResponse(a)
    \/ \E a \in ActIds : ActionDirectResponse(a)
    \/ \E a \in ActIds : ActionFallbackResponse(a)
    \/ \E a \in ActIds : ActionRefreshResponse(a)

SpecDevice == InitDevice /\ [][NextDevice]_vars

\* ------------------------- action() overlapping enable / disable ----
\* The same handle while the caller also switches direct connections off and
\* on: disableDirectConnection() runs between any two segments of an action()
\* in progress, and the refresh of enableDirectConnection() overlaps it.
NextSwitch ==
    \/ RefreshResponse
    \/ \E a \in ActIds, path \in ActionPaths : Action(a, path, "POST")
    \/ \E a \in ActIds : ActionRelayResponse(a)
    \/ \E a \in ActIds : ActionDirectResponse(a)
    \/ \E a \in ActIds : ActionFallbackResponse(a)
    \/ \E a \in ActIds : ActionRefreshResponse(a)
    \/ DisableDirectConnection
    \/ EnableDirectConnection

SpecSwitch == InitDevice /\ [][NextSwitch]_vars

\* ------------------------------------------- one call at a time ----
\* The same handle used by a caller that starts action() only when nothing
\* else is in progress on the handle.  Every fetch settles: it resolves with
\* a reply or rejects.
NextSingle ==
    \/ RefreshResponse
    \/ \E a \in ActIds, path \in ActionPaths : DeviceIdle /\ Action(a, path, "POST")
    \/ \E a \in ActIds : ActionRelayResponse(a)
    \/ \E a \in ActIds : ActionDirectResponse(a)
    \/ \E a \in ActIds : ActionFallbackResponse(a)
    \/ \E a \in ActIds : ActionRefreshResponse(a)

SpecSingle ==
    /\ InitDevice
    /\ [][NextSingle]_vars
    /\ WF_vars(RefreshResponse)
    /\ \A a \in ActIds :
          /\ WF_vars(ActionRelayResponse(a))
          /\ WF_vars(ActionDirectResponse(a))
          /\ WF_vars(ActionFallbackResponse(a))
          /\ WF_vars(ActionRefreshResponse(a))

\* ----------------------------------------- the handle after disconnect() ----
\* The handle once the relay has answered the constructor's refresh with the
\* hints [A, B]; the caller then also ends the session, and minutes pass: the
\* handle outlives the session it was obtained from.
InitTracked ==
    LET bg0 == RefreshBegin(ConnectedJd, NewDevice(D1), [IdleTask EXCEPT !.op = "refresh"],
                            TaskReturn([IdleTask EXCEPT !.op = "refresh"], None))
        hints == [EmptyObj EXCEPT !.data = Some(DataVal("object", <<ConnA, ConnB>>)),
                                  !.rid = Some(bg0.req.rid)]
        resp == HttpReply(200, encrypt("myjd", ConnectedJd.deviceEncryptionToken,
                                       PlainJson(hints)).text)
        r == RequestReceive(ConnectedJd, bg0.req, resp, 1)
        idle == [a \in ActIds |-> IdleTask]
    IN  /\ jd = [ConnectedJd EXCEPT !.requestId = r.requestId]
        /\ clock = 1
        /\ sess = IdleSess
        /\ calls = 0
        /\ dev = RefreshEnd(NewDevice(D1), idle, r)
        /\ bg = TaskReturn([bg0 EXCEPT !.rx = TaskRx(resp, r)], None)
        /\ act = idle
        /\ chain = Some(<<[sessiontoken |-> <<10, 10>>, regaintoken |-> <<12, 12>>]>>)

NextDisconnect ==
    \/ TickMinute
    \/ \E a \in ActIds, path \in ActionPaths : Action(a, path, "POST")
    \/ \E a \in ActIds : ActionRelayResponse(a)
    \/ \E a \in ActIds : ActionDirectResponse(a)
    \/ \E a \in ActIds : ActionFallbackResponse(a)
    \/ \E a \in ActIds : ActionRefreshResponse(a)
    \/ Disconnect
    \/ DisconnectResponse

SpecDisconnect == InitTracked /\ [][NextDisconnect]_vars

\* ------------------------------------------- the handle as time passes ----
\* The handle tracking [A, B] on its connected session, used by action()
\* calls while Date.now() advances by milliseconds and by minutes, so that
\* calls start before, at and after the end of a cooldown.
NextBackoff ==
    \/ Tick
    \/ TickMinute
    \/ \E a \in ActIds, path \in ActionPaths : Action(a, path, "POST")
    \/ \E a \in ActIds : ActionRelayResponse(a)
    \/ \E a \in ActIds : ActionDirectResponse(a)
    \/ \E a \in ActIds : ActionFallbackResponse(a)
    \/ \E a \in ActIds : ActionRefreshResponse(a)

SpecBackoff == InitTracked /\ [][NextBackoff]_vars

\* ------------------------------------- action() overlapping reconnect() ----
\* The same handle while the caller also renews the session: reconnect() and
\* action() are both async, so their segments interleave at every await.
NextOverlap ==
    \/ RefreshResponse
    \/ \E a \in ActIds, path \in ActionPaths : Action(a, path, "POST")
    \/ \E a \in ActIds : ActionRelayResponse(a)
    \/ \E a \in ActIds : ActionDirectResponse(a)
    \/ \E a \in ActIds : ActionFallbackResponse(a)
    \/ \E a \in ActIds : ActionRefreshResponse(a)
    \/ Reconnect
    \/ ReconnectResponse
    \/ UpdateTokensServer
    \/ UpdateTokensDevice

SpecOverlap == InitDevice /\ [][NextOverlap]_vars

\* --------------------------------------------------- the cipher alone ----
\* _encrypt and _decrypt applied one after the other to a message, in either
\* mode.  The session holds the key material as its device token; the call
\* record keeps the message (input), the output of _encrypt (req.body) and
\* the outcome of _decrypt (response).
CipherKeys ==
    {secretCreate(<<65>>, <<112>>, DomainServer), secretCreate(<<65>>, <<112>>, DomainDevice),
     Digest(<<10, 10>>), <<1, 2, 3, 4>>}
CipherMessages ==
    {PlainJson(j) : j \in ErrorObjects \cup {EmptyObj, Envelope("/device/ping", 1)}}
      \cup {PlainRaw(t) : t \in {"", "pong", "<html>"}}

InitCipher ==
    /\ jd \in {[NewJd EXCEPT !.connectionType = m, !.deviceEncryptionToken = k]
                 : m \in {"myjd", "remoteapi"}, k \in CipherKeys}
    /\ sess \in {[IdleSess EXCEPT !.op = "cipher", !.pc = "encrypt", !.input = M]
                   : M \in CipherMessages}
    /\ clock = 1
    /\ calls = 0
    /\ dev = NoDevice
    /\ bg = IdleTask
    /\ act = [a \in ActIds |-> IdleTask]
    /\ chain = None

CipherEncrypt ==
    /\ sess.pc = "encrypt"
    /\ LET enc == encrypt(jd.connectionType, jd.deviceEncryptionToken, sess.input)
       IN  sess' = IF ~enc.ok THEN Throw(sess, "DataError", "")
                   ELSE [sess EXCEPT !.pc = "decrypt", !.req.body = enc.text]
    /\ UNCHANGED <<chain, jd, clock, calls, devVars>>

CipherDecrypt ==
    /\ sess.pc = "decrypt"
    /\ sess' = [sess EXCEPT
                  !.pc = "idle", !.stage = "decrypt",
                  !.response = decrypt(jd.connectionType, jd.deviceEncryptionToken,
                                       sess.req.body)]
    /\ UNCHANGED <<chain, jd, clock, calls, devVars>>

NextCipher == CipherEncrypt \/ CipherDecrypt

SpecCipher == InitCipher /\ [][NextCipher]_vars

\* ------------------------------------------ a session with one device ----
\* The calls a caller makes on a session set up by directConnect(): the
\* session-level ones, getDevice() and the calls on the handle.
NextDirect ==
    \/ \E ip \in DirectIps : DirectConnect(ip)
    \/ DirectConnectPing
    \/ Reconnect
    \/ Disconnect
    \/ \E path \in RawPaths, m \in Methods : RequestApi(path, m)
    \/ RequestApiResponse
    \/ \E n \in NameSelectors \cup {""}, i \in IdSelectors \cup {""} :
         GetDevice(IF n = "" THEN None ELSE Some(n), IF i = "" THEN None ELSE Some(i))
    \/ \E a \in ActIds, path \in ActionPaths : Action(a, path, "POST")
    \/ \E a \in ActIds : ActionRelayResponse(a)
    \/ EnableDirectConnection
    \/ DisableDirectConnection

SpecDirect == Init /\ [][NextDirect]_vars

\* ------------------------------------------------------ specification ----
Next ==
    \/ \E e \in Emails, p \in Passwords : Connect(e, p)
    \/ ConnectLoginSecret
    \/ ConnectDeviceSecret
    \/ ConnectHandshake
    \/ UpdateTokensServer
    \/ UpdateTokensDevice
    \/ ConnectListDevices
    \/ \E ip \in DirectIps : DirectConnect(ip)
    \/ DirectConnectPing
    \/ Reconnect
    \/ ReconnectResponse
    \/ Disconnect
    \/ DisconnectResponse
    \/ \E path \in RawPaths, m \in Methods : RequestApi(path, m)
    \/ RequestApiResponse
    \/ \E n \in NameSelectors \cup {""}, i \in IdSelectors \cup {""} :
         GetDevice(IF n = "" THEN None ELSE Some(n), IF i = "" THEN None ELSE Some(i))
    \/ RefreshResponse

Spec == Init /\ [][Next]_vars

\* ============================================================ properties ====
Finished(op) == sess.op = op /\ sess.pc = "idle"
DocumentedErrors == {"MYJDConnectionException"} \cup ApiExceptionClasses
DeviceToken(deviceSecret, sessionToken) ==
    Digest(concatBuffers(deviceSecret, hexToBuffer(sessionToken)))

\* C1: when the /my/connect handshake of connect() gets no response or an
\* error reply, connect() aborts and isConnected() is false afterwards.
ConnectFailureLeavesDisconnected ==
    (Finished("connect") /\ sess.stage = "handshake" /\ sess.rx.net \in {"none", "error"})
        => (sess.out = "throw" /\ ~isConnected)

\* C2: after connect() returns, the session is connected, holds the tokens of
\* the handshake reply, both encryption tokens are the digests of the secret
\* followed by the session token, and listDevices() is the list that
\* /my/listdevices returned.
ConnectSuccessState ==
    (Finished("connect") /\ sess.out = "return") =>
        /\ isConnected
        /\ sess.ret = sess.response
        /\ jd.sessionToken = sess.response.sessiontoken
        /\ jd.regainToken = sess.response.regaintoken
        /\ jd.loginSecret = secretCreate(sess.email, sess.password, DomainServer)
        /\ jd.deviceSecret = secretCreate(sess.email, sess.password, DomainDevice)
        /\ jd.serverEncryptionToken =
               Digest(concatBuffers(jd.loginSecret, hexToBuffer(jd.sessionToken)))
        /\ jd.deviceEncryptionToken = DeviceToken(jd.deviceSecret, jd.sessionToken)
        /\ sess.rx.net = "ok"
        /\ listDevices = sess.rx.val.list

\* C2's case: a connect() that returned with the two-device list.
ConnectSucceeded ==
    Finished("connect") /\ sess.out = "return" /\ listDevices = Some(<<D1, D2>>)

\* C3: after directConnect() ends, returning or raising, the session is
\* connected exactly when the ping returned a truthy payload.
DirectConnectedIffTruthyPing ==
    Finished("directConnect") =>
        (isConnected <=> (sess.rx.kind = "value" /\ Truthy(sess.rx.val.data)))

\* C4: once the relay was notified, disconnect() leaves all local session
\* state cleared whether the relay did not answer, answered with an error, or
\* answered with success.
Cleared(jdx) ==
    /\ jdx.loginSecret = Null /\ jdx.deviceSecret = Null
    /\ jdx.sessionToken = Null /\ jdx.regainToken = Null
    /\ jdx.serverEncryptionToken = Null /\ jdx.deviceEncryptionToken = Null
    /\ jdx.devices = None /\ ~jdx.connected
DisconnectAlwaysClears ==
    (Finished("disconnect") /\ sess.rx.net \in {"none", "error", "ok"}) => Cleared(jd)

\* C5: after a connect() that returned and k reconnect()s that returned, the
\* server token is the k+1-fold digest chain that starts from the login
\* secret, the device token is the digest of the device secret and the last
\* session token, and the stored tokens are those of the last reply.
RECURSIVE RatchetChain(_, _)
RatchetChain(loginSecret, tokens) ==
    LET n == Len(tokens)
        last == hexToBuffer(tokens[n].sessiontoken)
    IN  IF n = 1 THEN Digest(concatBuffers(loginSecret, last))
        ELSE Digest(concatBuffers(RatchetChain(loginSecret, SubSeq(tokens, 1, n - 1)), last))
RatchetAfterReconnects ==
    (chain # None /\ sess.pc = "idle") =>
        LET tokens == The(chain)
            last == tokens[Len(tokens)]
        IN  /\ jd.serverEncryptionToken = RatchetChain(jd.loginSecret, tokens)
            /\ jd.deviceEncryptionToken = DeviceToken(jd.deviceSecret, last.sessiontoken)
            /\ jd.sessionToken = last.sessiontoken
            /\ jd.regainToken = last.regaintoken

\* C5's case: the second reconnect() after a connect() has returned, each of
\* the three replies carrying its own session token or not.
TwoReconnectsDone ==
    /\ Finished("reconnect") /\ sess.out = "return"
    /\ chain # None /\ Len(The(chain)) = 3
    /\ The(chain)[1].sessiontoken # The(chain)[2].sessiontoken

\* C6: every device action request in flight that carries the fragment
\* /t_<sessionToken>_<deviceId> is encrypted with the device token computed
\* for that session token.
ActionTokenMatchesFragment ==
    \A t \in {bg} \cup {act[a] : a \in ActIds} :
        (t.pc # "idle" /\ t.req.urlAction # Null) =>
            LET token == DeviceToken(jd.deviceSecret, t.req.urlAction[2])
            IN  t.req.body.iv = IvOf(token) /\ t.req.body.key = KeyOf(token)

\* C6's case: action() sent its relay request while reconnect() was between
\* storing the new session token and storing the new device token.
ActionOverlapsReconnect ==
    /\ sess.op = "reconnect" /\ sess.pc \in {"serverToken", "deviceToken"}
    /\ \E a \in ActIds : act[a].pc = "relay" /\ act[a].req.urlAction[2] = jd.sessionToken

\* C7: getDevice() on a connected session returns the handle of the first
\* entry with that id, else (no id given) of the first with that name, else
\* (no selector) of the first entry, and raises device-not-found in every
\* other case; on a session that is not connected it raises a connection
\* failure.
RECURSIVE ScanFrom(_, _, _, _)
ScanFrom(devices, k, field, value) ==
    IF k > Len(devices) THEN 0
    ELSE IF devices[k][field] = value THEN k
    ELSE ScanFrom(devices, k + 1, field, value)
GetDeviceOutcomes ==
    Finished("getDevice") =>
        IF ~isConnected
        THEN sess.out = "throw" /\ sess.err = "MYJDConnectionException"
        ELSE LET devices == IF listDevices = None THEN <<>> ELSE The(listDevices)
                 k == IF sess.deviceId # None
                      THEN ScanFrom(devices, 1, "id", The(sess.deviceId))
                      ELSE IF sess.deviceName # None
                      THEN ScanFrom(devices, 1, "name", The(sess.deviceName))
                      ELSE IF Len(devices) > 0 THEN 1 ELSE 0
             IN  IF k = 0
                 THEN sess.out = "throw" /\ sess.err = "MYJDDeviceNotFoundException"
                 ELSE sess.out = "return" /\ sess.device = Some(devices[k])

\* C8: requestApi on a session that is not connected raises a connection
\* failure and sends nothing, unless the path is /my/connect: that one is
\* never refused for the flag, and is sent whenever the key it is signed or
\* encrypted with exists.
HasKeyFor(method) ==
    \/ jd.connectionType = "remoteapi"
    \/ method = "GET" /\ (jd.loginSecret # Null \/ jd.serverEncryptionToken # Null)
    \/ method = "POST" /\ jd.deviceEncryptionToken # Null
NotConnectedRefusal ==
    (sess.op = "requestApi" /\ ~isConnected) =>
        IF sess.path # "/my/connect"
        THEN /\ sess.pc = "idle" /\ sess.out = "throw"
             /\ sess.err = "MYJDConnectionException" /\ sess.nreq = 0
        ELSE /\ sess.err # "MYJDConnectionException"
             /\ HasKeyFor(sess.method) => sess.nreq = 1

\* C8's case: the handshake path was sent on a session that is not connected.
HandshakePathSentWhileDisconnected ==
    /\ Finished("requestApi") /\ ~isConnected
    /\ sess.path = "/my/connect" /\ sess.nreq = 1

SessionCallsRaiseOnlyDocumented ==
    (sess.op \in {"connect", "directConnect", "reconnect"} /\ sess.pc = "idle") =>
        /\ sess.out = "throw" => sess.err \in DocumentedErrors
        /\ (sess.rx.net = "none" /\ sess.stage \in {"handshake", "ping", "reconnect"})
               => (sess.out = "throw" /\ sess.err = "MYJDConnectionException")

\* The calls of the model: the session-level one, the constructor's (or
\* enableDirectConnection's) refresh and the action() calls.
CallSlots == {sess, bg} \cup {act[a] : a \in ActIds}

\* C11: a success reply that decodes to an object whose rid differs from the
\* rid sent in its request makes requestApi return the no-response sentinel,
\* never the object.
StaleRidIsDiscarded ==
    \A c \in CallSlots :
        c.rx.net = "ok" /\ c.rx.seen # None /\ The(c.rx.seen) # c.rx.sent
            => c.rx.kind = "null"

\* A reply with a rid that was not the one sent has been received while
\* another call was completing.
ForeignRidReceived ==
    \E c \in CallSlots :
        c.rx.net = "ok" /\ c.rx.seen # None /\ The(c.rx.seen) # c.rx.sent

\* C12: a success reply that echoes the rid sent in its own request is
\* accepted and returned, whatever the other calls in flight have done to the
\* shared request id meanwhile.
OwnRidIsAccepted ==
    \A c \in CallSlots :
        c.rx.net = "ok" /\ c.rx.seen = Some(c.rx.sent) => c.rx.kind = "value"

\* A reply echoing its request's rid has been received.
OwnRidReceived ==
    \E c \in CallSlots : c.rx.net = "ok" /\ c.rx.seen = Some(c.rx.sent)

\* The error kind registered for a type code, compared without regard to
\* case, for the type codes the relay sends here.
RegisteredKind(type) ==
    IF type \in {"AUTH_FAILED", "auth_failed", "Auth_Failed"}
    THEN "MYJDAuthFailedException"
    ELSE "MYJDUnknownException"

\* The session-level call ended on a non-success reply whose body decoded to
\* an object (plain, or encrypted and decrypted with the device token).
EndedOnErrorObject ==
    /\ sess.pc = "idle" /\ sess.rx.net = "error"
    /\ sess.rx.body.json /\ sess.rx.body.val.isObj
    /\ sess.rx.body.val.src # "" /\ sess.rx.body.val.type # ""
    /\ ~(sess.out = "throw" /\ sess.err = "MYJDDecodeException")

\* C13: a non-success reply that decodes to an object with src and type
\* raises the error kind registered for type, compared case-insensitively
\* (the unknown-error kind if none is registered), carrying src in upper case.
ErrorReplyRaisesRegisteredKind ==
    EndedOnErrorObject =>
        /\ sess.out = "throw"
        /\ sess.err = RegisteredKind(sess.rx.body.val.type)
        /\ sess.source = "JD"

\* A reply {src: "jd", type: "auth_failed"} has raised the auth-failed kind.
LowerCaseTypeRaised ==
    /\ EndedOnErrorObject
    /\ sess.rx.body.val.type = "auth_failed" /\ sess.rx.body.val.src = "jd"
    /\ sess.err = "MYJDAuthFailedException" /\ sess.source = "JD"

\* The body is JSON as it stands, or ciphertext of JSON made with the
\* session's device token.
DecodableErrorBody(body) ==
    /\ body.json
    /\ \/ IsPlain(body)
       \/ /\ jd.connectionType # "remoteapi"
          /\ jd.deviceEncryptionToken # Null
          /\ body.iv = IvOf(jd.deviceEncryptionToken)
          /\ body.key = KeyOf(jd.deviceEncryptionToken)

\* C14: a call that ends on a non-success reply never returns (neither a
\* value nor the no-response sentinel): it raises, and what it raises is
\* MYJDDecodeException exactly when the body is neither plain JSON nor
\* ciphertext that the device token decrypts to JSON.
ErrorReplyDecodedPlainThenDecrypted ==
    (sess.pc = "idle" /\ sess.rx.net = "error") =>
        /\ sess.out = "throw"
        /\ (sess.err = "MYJDDecodeException") <=> ~DecodableErrorBody(sess.rx.body)

\* An error reply that was encrypted with the device token has been decoded
\* and raised as an API error; and one that could not be decoded at all.
EncryptedErrorDecoded ==
    /\ sess.pc = "idle" /\ sess.rx.net = "error" /\ ~IsPlain(sess.rx.body)
    /\ sess.out = "throw" /\ sess.err \in ApiExceptionClasses

\* The session-level call ended in a failed cipher operation of requestApi:
\* the envelope could not be encrypted, or the body of a success reply could
\* not be decrypted (the only way a success reply makes requestApi raise).
CipherOperationFailed ==
    /\ sess.pc = "idle" /\ sess.out = "throw"
    /\ \/ sess.rx.net = "ok" /\ sess.rx.kind = "throw"
       \/ sess.nreq = 0 /\ sess.err = "DataError"

\* C15: a failed cipher operation inside requestApi surfaces as
\* MYJDDecodeException; in particular a success reply whose body cannot be
\* decrypted raises MYJDDecodeException.
CipherFailureIsDecodeException ==
    CipherOperationFailed => sess.err = "MYJDDecodeException"

\* A success reply whose body could not be decrypted ended the caller's
\* requestApi call.
SuccessBodyNotDecrypted ==
    /\ Finished("requestApi") /\ sess.out = "throw"
    /\ sess.rx.net = "ok" /\ sess.rx.kind = "throw"

\* An action() that took the branch of line 1382 contacts the relay only: one
\* action request on the relay action path, then at most the refresh.
RelayRouteContactsOnlyRelay ==
    \A a \in ActIds : act[a].route = "relay" =>
        /\ act[a].pc \in {"idle", "relay", "refresh"}
        /\ act[a].pc = "relay" =>
               /\ act[a].req.api = jd.apiUrl
               /\ act[a].req.urlAction = act[a].actionUrl
               /\ act[a].req.path \in ActionPaths
               /\ act[a].nreq = 1
        /\ act[a].pc = "refresh" =>
               /\ act[a].req.api = jd.apiUrl
               /\ act[a].req.path = RefreshPath
               /\ act[a].nreq = 2

\* Such an action() raises the connection failure when its request got no
\* response and returns once its request got one.
RelayRouteReturnsPayload ==
    \A a \in ActIds : (act[a].route = "relay" /\ act[a].pc = "idle") =>
        /\ (act[a].stage = "relay" /\ act[a].rx.kind = "null")
               => (act[a].out = "throw" /\ act[a].err = "MYJDConnectionException")
        /\ (act[a].stage = "relay" /\ act[a].rx.kind = "value") => act[a].out = "return"
        /\ act[a].stage = "refresh" => act[a].out = "return"

\* C16: with direct attempts disabled, the candidate list unknown or the
\* device-level cooldown not over, action() contacts no direct address and
\* sends exactly one action request through the relay action path; without a
\* response it raises the connection failure, otherwise it returns the
\* response's payload.
RelayRouteOutcome == RelayRouteContactsOnlyRelay /\ RelayRouteReturnsPayload

\* An action() on the relay route got its answer and then awaited the
\* refresh of the candidates.
RelayRouteRefreshed ==
    \E a \in ActIds :
        act[a].route = "relay" /\ act[a].pc = "idle" /\ act[a].stage = "refresh"

\* The addresses of the candidate list, in list order (empty for a null list).
Addrs(devx) ==
    IF devx.directConnectionInfo = None THEN <<>>
    ELSE [k \in DOMAIN The(devx.directConnectionInfo) |->
            devx.objects[The(devx.directConnectionInfo)[k]].conn]

\* The reply to the direct request of action() a is processed in this step.
DirectReplyStep(a) == act[a].pc = "direct" /\ act'[a] # act[a]

\* C17: on the direct path a candidate that yields no response gets the
\* cooldown now + 60 s and the call goes on to the next one (or to step 3);
\* the first candidate that answers is moved to the front of the list, the
\* other addresses keeping their order, the consecutive-failure counter is
\* reset to 0 and the payload is returned without a request to the relay.
DirectPathPromotesAndCools ==
    [][\A a \in ActIds : DirectReplyStep(a) =>
          LET held == act[a].conn
              c == dev.objects[held].conn
          IN  /\ act'[a].rx.kind = "value" =>
                    /\ act'[a].pc = "idle" /\ act'[a].out = "return"
                    /\ act'[a].nreq = act[a].nreq
                    /\ Addrs(dev') = <<c>> \o SelectSeq(Addrs(dev), LAMBDA x : x # c)
                    /\ dev'.directConnectionConsecutiveFailures = 0
              /\ act'[a].rx.kind = "null" =>
                    /\ held \in DOMAIN dev'.objects
                           => dev'.objects[held].cooldown = clock + Minute
                    /\ \/ act'[a].pc = "direct" /\ act'[a].i > act[a].i
                       \/ act'[a].stage = "fallback" \/ act'[a].pc = "fallback"
    ]_vars

\* The example of the claim: the list was [A, B], A gave no response and B
\* answered; the list is [B, A], A cools down and the counter is 0.
SecondCandidatePromoted ==
    \E a \in ActIds :
        /\ act[a].pc = "idle" /\ act[a].stage = "direct" /\ act[a].out = "return"
        /\ act[a].nreq = 2
        /\ Addrs(dev) = <<ConnB, ConnA>>
        /\ dev.objects[The(dev.directConnectionInfo)[2]].cooldown = clock + Minute
        /\ dev.directConnectionConsecutiveFailures = 0

\* action() a leaves the direct path in this step without a success: the
\* candidate it was waiting for gave no response and no other one is tried,
\* or it started with every candidate cooling down.
NoCandidateSucceeded(a) ==
    \/ DirectReplyStep(a) /\ act'[a].rx.kind = "null" /\ act'[a].pc # "direct"
    \/ /\ act[a].pc = "idle" /\ act'[a] # act[a]
       /\ act'[a].route = "direct" /\ act'[a].pc # "direct"

\* C18: when no direct candidate succeeds the consecutive-failure counter
\* goes up by one, the device-level cooldown becomes now + 60 s times the new
\* counter and the relay action path is tried once; without a response from
\* the relay the call raises the connection failure.  The counter changes in
\* no other way except the reset by a direct success.
FullFailureBacksOff ==
    [][\A a \in ActIds :
          LET n == dev.directConnectionConsecutiveFailures
              n1 == dev'.directConnectionConsecutiveFailures
          IN  /\ NoCandidateSucceeded(a) =>
                    /\ n1 = n + 1
                    /\ dev'.directConnectionCooldown = clock + CooldownSeconds * MsPerSecond * n1
                    /\ act'[a].pc = "fallback"
                    /\ act'[a].req.api = jd.apiUrl /\ act'[a].req.path = act'[a].path
                    /\ act'[a].nreq = (IF act[a].pc = "idle" THEN 0 ELSE act[a].nreq) + 1
              /\ (act[a].pc = "fallback" /\ act'[a] # act[a] /\ act'[a].rx.kind = "null")
                    => (act'[a].out = "throw" /\ act'[a].err = "MYJDConnectionException")
              /\ n1 # n =>
                    \/ NoCandidateSucceeded(a)
                    \/ DirectReplyStep(a) /\ act'[a].rx.kind = "value" /\ n1 = 0
    ]_vars

\* A full failure: every candidate tried gave no response, the counter is 1,
\* the device-level cooldown now + 60 s and the relay request is in flight.
FullFailureBackedOff ==
    /\ dev.directConnectionConsecutiveFailures = 1
    /\ dev.directConnectionCooldown = clock + CooldownSeconds * MsPerSecond
    /\ \E a \in ActIds : act[a].pc = "fallback" /\ act[a].nreq > 1

\* The candidate list as the sequence of its entries {conn, cooldown}.
Tracked(devx) ==
    IF devx.directConnectionInfo = None THEN <<>>
    ELSE [k \in DOMAIN The(devx.directConnectionInfo) |->
            devx.objects[The(devx.directConnectionInfo)[k]]]

\* The entries of a list without the repetitions of an address.
FirstOccurrences(list) ==
    LET first(k) == \A h \in 1..(k - 1) : list[h].conn # list[k].conn
        RECURSIVE pick(_)
        pick(k) == IF k > Len(list) THEN <<>>
                   ELSE (IF first(k) THEN <<list[k]>> ELSE <<>>) \o pick(k + 1)
    IN  pick(1)

\* What the claim says the list is after a refresh that obtained hints: the
\* entries still hinted, as they were and in their order, then the hinted
\* addresses that are new, with cooldown 0.
MergedWithHints(list, hints) ==
    LET hinted(x) == \E k \in DOMAIN hints : hints[k] = x
        tracked(x) == \E k \in DOMAIN list : list[k].conn = x
        fresh == SelectSeq(hints, LAMBDA h : ~tracked(h))
    IN  SelectSeq(FirstOccurrences(list), LAMBDA e : hinted(e.conn))
          \o [k \in DOMAIN fresh |-> [conn |-> fresh[k], cooldown |-> 0]]

\* The call in slot t processes the reply to its refresh in this step.
RefreshReplyStep(t, t1) == t.pc = "refresh" /\ t1 # t

\* C19: after a refresh that obtains a hint list the tracked list holds
\* exactly the hinted addresses: those tracked before keep their cooldown and
\* their relative order, those no longer hinted are dropped, the new ones
\* follow with cooldown 0.
RefreshMergesHints ==
    [][\A s \in {<<bg, bg'>>} \cup {<<act[a], act'[a]>> : a \in ActIds} :
          (RefreshReplyStep(s[1], s[2]) /\ s[2].rx.infos # <<>>) =>
              Tracked(dev') = MergedWithHints(Tracked(dev), s[2].rx.infos)
    ]_vars

\* The example of the claim: of two tracked candidates, one cooling down, the
\* refresh kept the hinted one with its cooldown, dropped the other and added
\* the new address with cooldown 0.
CoolingCandidateKept ==
    /\ \E a \in ActIds :
          /\ act[a].pc = "idle" /\ act[a].stage = "refresh"
          /\ act[a].rx.infos = <<ConnB, ConnC>>
    /\ Tracked(dev) = << [conn |-> ConnB, cooldown |-> clock + CooldownSeconds * MsPerSecond],
                         [conn |-> ConnC, cooldown |-> 0] >>

\* No address occurs twice in the sequence.
Distinct(seq) == \A i, j \in DOMAIN seq : i # j => seq[i] # seq[j]

\* C20: the candidate list holds each address at most once in every
\* reachable state, and a promotion to the front removes no address other
\* than the promoted one (which it puts back in front).
CandidateListAtomic ==
    [][/\ Distinct(Addrs(dev'))
       /\ \A a \in ActIds :
             (DirectReplyStep(a) /\ act'[a].rx.kind = "value" /\ act'[a].out = "return")
                 => Range(Addrs(dev)) \subseteq Range(Addrs(dev'))
    ]_vars

\* A direct candidate has been promoted after a refresh of the candidates
\* that was in flight during the dispatch had replaced the list.
PromotedAcrossRefresh ==
    \E a \in ActIds :
        /\ act[a].pc = "idle" /\ act[a].stage = "direct" /\ act[a].out = "return"
        /\ bg.pc = "idle" /\ bg.op = "enable" /\ bg.rx.infos # <<>>
        /\ ~Distinct(Addrs(dev))

\* action() a starts in this step.
ActionStartStep(a) == act[a].pc = "idle" /\ act'[a] # act[a]

\* C21: an action() started after a reconnect has completed sends its
\* request with the fragment /t_<current session token>_<deviceId>, on the
\* relay path and to a direct candidate alike; the token of the session the
\* handle was created in is not used once it has been replaced.
FragmentFreshAfterReconnect ==
    [][\A a \in ActIds :
          (ActionStartStep(a) /\ Finished("reconnect") /\ sess.out = "return"
             /\ act'[a].pc # "idle") =>
              /\ act'[a].req.action = <<"/t_", jd.sessionToken, "_", dev.deviceId>>
              /\ act'[a].req.urlAction = act'[a].req.action
              /\ act'[a].actionUrl = act'[a].req.action
    ]_vars

\* An action request is in flight after a reconnect that replaced the session
\* token, and it carries the new token.
ActionAfterReconnect ==
    \E a \in ActIds :
        /\ Finished("reconnect") /\ sess.out = "return"
        /\ jd.sessionToken # <<10, 10>>
        /\ act[a].pc = "relay" /\ act[a].nreq = 1
        /\ act[a].req.urlAction = <<"/t_", jd.sessionToken, "_", dev.deviceId>>

\* A request of the caller's session-level call is in flight.
SessInFlight == sess.pc # "idle" /\ sess.req # NoReq

\* C22: in DIRECT_ONLY mode a GET carries no signature, a POST envelope is
\* plain JSON sent to base URL + path without action fragment, the candidate
\* refresh sends nothing, so the list of a handle of that session stays
\* unknown, and each action() sends one request, to the device address.
DirectOnlyIsPlain ==
    jd.connectionType = "remoteapi" =>
        /\ SessInFlight =>
              /\ sess.req.api = jd.apiUrl
              /\ sess.req.method = "GET" => sess.req.signature = NoSignature
              /\ sess.req.method = "POST" =>
                    (IsPlain(sess.req.body) /\ sess.req.body.json
                       /\ sess.req.urlAction = Null)
        /\ (dev.exists /\ dev.deviceId = "direct") =>
              /\ dev.directConnectionInfo = None
              /\ bg.pc = "idle" /\ bg.nreq = 0
              /\ \A a \in ActIds :
                    /\ act[a].pc \in {"idle", "relay"}
                    /\ act[a].nreq <= 1
                    /\ (act[a].pc = "idle" /\ act[a].out = "return") => act[a].nreq = 1
                    /\ act[a].pc = "relay" =>
                          /\ act[a].req.api = jd.apiUrl
                          /\ act[a].req.api \in {DirectUrl(ip, DirectPort) : ip \in DirectIps}
                          /\ act[a].req.urlAction = Null
                          /\ IsPlain(act[a].req.body) /\ act[a].req.body.json

\* An action() on a handle of a DIRECT_ONLY session has returned, having sent
\* one request.
DirectOnlyActionReturned ==
    \E a \in ActIds :
        /\ jd.connectionType = "remoteapi" /\ dev.exists /\ dev.deviceId = "direct"
        /\ act[a].pc = "idle" /\ act[a].out = "return" /\ act[a].nreq = 1

\* C23: whatever connect, directConnect and disconnect calls came before, a
\* POST is framed for the current mode: in RELAY mode Content-Type
\* application/aesjson-jd to the relay base URL, in DIRECT_ONLY mode
\* application/json to the device address.
FramingMatchesMode ==
    (SessInFlight /\ sess.req.method = "POST") =>
        IF jd.connectionType = "myjd"
        THEN sess.req.ctype = ContentAes /\ sess.req.api = RelayUrl
        ELSE /\ sess.req.ctype = ContentJson
             /\ sess.req.api \in {DirectUrl(ip, DirectPort) : ip \in DirectIps}

\* A POST is in flight in RELAY mode.
RelayPostInFlight ==
    SessInFlight /\ sess.req.method = "POST" /\ jd.connectionType = "myjd"

ActionRequests(t) ==
    t.nreq - (IF t.pc = "refresh" \/ (t.pc = "idle" /\ t.stage = "refresh") THEN 1 ELSE 0)

SingleCallStep(a) ==
    LET t == act[a]
        t2 == act'[a]
        inCall == t.pc # "idle"
        before == IF inCall THEN t.nreq ELSE 0
        info == IF dev.directConnectionInfo = None THEN <<>>
                ELSE The(dev.directConnectionInfo)
    IN  (t2 # t /\ t2.op = "action") =>
          /\ t2.pc = "direct" =>
                /\ t.pc \in {"idle", "direct"}
                /\ t2.nreq = before + 1
                /\ t2.i > (IF inCall THEN t.i ELSE 0) /\ t2.i <= Len(info)
                /\ t2.conn = info[t2.i]
                /\ inCall => t2.conn # t.conn
                /\ t2.req.api = DirectApi(dev.objects[t2.conn].conn)
                /\ dev'.directConnectionInfo = dev.directConnectionInfo
          /\ t2.pc \in {"relay", "fallback"} =>
                /\ t.pc \in {"idle", "direct"}
                /\ t2.nreq = before + 1
                /\ t2.req.api = RelayUrl /\ t2.req.path = t2.path
          /\ t2.pc = "refresh" =>
                /\ t.pc \in {"relay", "fallback"}
                /\ t2.nreq = before + 1
                /\ t2.req.path = RefreshPath
          /\ t2.pc = "idle" => (t2.nreq = before /\ t2.out \in {"return", "throw"})
          /\ ActionRequests(t2) <= Len(info) + 1
          /\ t2.nreq <= Len(info) + 2

\* C25: a single action() call with nothing else in progress on the handle
\* dispatches to each direct candidate at most once and to the relay action
\* path at most once, sends at most one candidate refresh, and always ends
\* by returning or raising.
SingleCallIsBounded ==
    /\ [][\A a \in ActIds : SingleCallStep(a)]_vars
    /\ \A a \in ActIds : (act[a].pc # "idle") ~> (act[a].pc = "idle")

\* A call that went through both candidates, the relay and the refresh, and
\* returned.
CallUsedEveryRequest ==
    \E a \in ActIds :
        /\ act[a].pc = "idle" /\ act[a].out = "return"
        /\ act[a].stage = "refresh" /\ act[a].nreq = 4

\* A step of a reconnect() call.
ReconnectStep == sess'.op = "reconnect" /\ sess' # sess

\* C26: reconnect() does not refetch the device list.  In RELAY mode it sends
\* one request, /my/reconnect with the current session and regain tokens, and
\* leaves the cached device list, both account secrets and the connected flag
\* as they were; in DIRECT_ONLY mode it sends nothing and changes nothing.
ReconnectFrame ==
    [][ReconnectStep =>
         /\ jd'.devices = jd.devices
         /\ jd'.loginSecret = jd.loginSecret /\ jd'.deviceSecret = jd.deviceSecret
         /\ jd'.connected = jd.connected
         /\ jd'.connectionType = jd.connectionType
         /\ sess'.nreq = (IF sess.op = "reconnect" /\ sess.pc # "idle" THEN sess.nreq ELSE 0)
                           + (IF sess'.pc = "reconnect" THEN 1 ELSE 0)
         /\ sess'.pc = "reconnect" =>
               /\ sess'.req.path = "/my/reconnect" /\ sess'.req.method = "GET"
               /\ sess'.req.query.params = <<(<<"sessiontoken", jd.sessionToken>>),
                                             (<<"regaintoken", jd.regainToken>>)>>
         /\ (sess'.pc = "idle" /\ sess'.out = "return" /\ jd.connectionType = "myjd")
               => sess'.nreq = 1
         /\ jd.connectionType = "remoteapi" =>
               /\ jd' = jd /\ sess'.nreq = 0
               /\ sess'.pc = "idle" /\ sess'.out = "return"]_vars

\* A reconnect has succeeded in RELAY mode on a session with a device list.
ReconnectedWithList ==
    /\ Finished("reconnect") /\ sess.out = "return" /\ sess.retKind = "value"
    /\ jd.connectionType = "myjd" /\ jd.devices # None /\ sess.nreq = 1

\* The key of a call without action fragment, and of any call.
SessionKey(jdx) ==
    IF jdx.serverEncryptionToken # Null THEN jdx.serverEncryptionToken
    ELSE jdx.loginSecret
SelectedKey(jdx, req) ==
    IF req.action = Null THEN SessionKey(jdx) ELSE jdx.deviceEncryptionToken
EncryptedWith(text, k) ==
    k # Null /\ ~IsPlain(text) /\ text.iv = IvOf(k) /\ text.key = KeyOf(k)

\* The requests in flight: those of the calls that await a fetch.
FetchPcs ==
    {"handshake", "listdevices", "ping", "reconnect", "disconnect", "requestApi",
     "refresh", "relay", "direct", "fallback"}
RequestsInFlight ==
    {c.req : c \in {x \in {sess, bg} \cup {act[a] : a \in ActIds} : x.pc \in FetchPcs}}

\* C27: in RELAY mode a call without action fragment is signed (GET) and its
\* success reply decrypted with the server token if the session holds one and
\* with the login secret otherwise; a call with an action fragment has its
\* envelope encrypted and its success reply decrypted with the device token.
\* The handshake of connect() uses the login secret of that call's
\* credentials.
KeySelection ==
    jd.connectionType = "myjd" =>
      /\ (sess.pc \in FetchPcs /\ sess.req.method = "GET" /\ sess.req.action = Null) =>
            sess.req.signature.key = SessionKey(jd)
      /\ sess.pc = "handshake" =>
            /\ sess.req.path = "/my/connect"
            /\ jd.loginSecret = secretCreate(sess.email, sess.password, DomainServer)
            /\ sess.req.signature.key = jd.loginSecret
            /\ SessionKey(jd) = jd.loginSecret
      /\ (bg.pc = "refresh" /\ Finished("getDevice")) =>
            /\ bg.req.action # Null
            /\ EncryptedWith(bg.req.body, jd.deviceEncryptionToken)
      /\ \A req \in RequestsInFlight :
            \A resp \in Responses(jd, req) :
               resp.status = 200 =>
                 LET r == RequestReceive(jd, req, resp, clock)
                 IN  (r.kind = "throw" /\ r.err = "OperationError")
                       <=> ~EncryptedWith(resp.body, SelectedKey(jd, req))

\* A handle of an earlier relay session exists, and the handshake of a new
\* connect() with other credentials has been answered and accepted.
SecondHandshakeAccepted ==
    /\ dev.exists /\ dev.deviceId = "id1"
    /\ sess.op = "connect" /\ sess.pc = "serverToken"
    /\ sess.password = <<113>> /\ sess.rx.kind = "value"
    /\ EncryptedWith(sess.rx.body, jd.loginSecret)

\* The reply to a session-level requestApi call was handled as a success
\* reply: no typed API error and no decode failure came of it, and a body
\* encrypted with the session's key that echoes the rid sent was returned.
HandledAsSuccess ==
    /\ ~(sess.out = "throw"
           /\ sess.err \in ApiExceptionClasses \cup {"MYJDDecodeException", "TypeError"})
    /\ (EncryptedWith(sess.rx.body, SessionKey(jd)) /\ sess.rx.seen = Some(sess.rx.sent))
          => (sess.out = "return" /\ sess.retKind = "value"
              /\ sess.ret = sess.rx.body.val)

\* C28: every reply with a 2xx status is handled as a success reply, and
\* only replies with a status outside that range as error replies.
SuccessStatusIsSuccess ==
    (Finished("requestApi") /\ sess.rx.net # "none" /\ sess.rx.net # "") =>
        IF sess.rx.status \in 200..299
        THEN HandledAsSuccess
        ELSE sess.out = "throw"

\* A reply with status 204, encrypted with the server token and echoing the
\* rid sent, has been received.
OtherSuccessStatusReceived ==
    /\ Finished("requestApi") /\ sess.rx.status = 204
    /\ EncryptedWith(sess.rx.body, SessionKey(jd))
    /\ sess.rx.body.val.rid = Some(sess.rx.sent)

\* A direct candidate's reply is processed, and it is a success reply whose
\* object carries another rid than the one its request was sent with.
StaleDirectReplyStep(a) ==
    /\ act[a].pc = "direct" /\ act'[a] # act[a]
    /\ act'[a].rx.net = "ok" /\ act'[a].rx.seen # None
    /\ The(act'[a].rx.seen) # act'[a].rx.sent

\* C29: a stale reply from a direct candidate is handled like no response:
\* the candidate is cooled down for 60 s, the next candidate or else the relay
\* is tried, and the call does not return the stale payload.
StaleDirectReplyIsNoResponse ==
    [][\A a \in ActIds :
         StaleDirectReplyStep(a) =>
           /\ act'[a].pc \in {"direct", "fallback"}
           /\ act'[a].nreq = act[a].nreq + 1
           /\ act'[a].data = None
           /\ act[a].conn \in DOMAIN dev'.objects =>
                 dev'.objects[act[a].conn].cooldown = clock + Minute
           /\ act'[a].pc = "direct" =>
                 (act'[a].i > act[a].i /\ act'[a].conn # act[a].conn)
           /\ act'[a].pc = "fallback" => act'[a].req.api = RelayUrl]_vars

\* A stale reply from the first candidate has been processed and the second
\* candidate is being tried.
StaleThenNextCandidate ==
    \E a \in ActIds :
        /\ act[a].pc = "direct" /\ act[a].i = 2
        /\ act[a].rx.net = "ok" /\ act[a].rx.seen # None
        /\ The(act[a].rx.seen) # act[a].rx.sent

\* An action() request, to a candidate or to the relay, is answered with an
\* error reply.
ActionErrorReplyStep(a) ==
    /\ act[a].pc \in {"relay", "direct", "fallback"} /\ act'[a] # act[a]
    /\ act'[a].rx.net = "error"

\* The cooldowns of the candidates of the list, in list order.
CandidateCooldowns(devx) ==
    IF devx.directConnectionInfo = None THEN <<>>
    ELSE [k \in DOMAIN The(devx.directConnectionInfo) |->
            devx.objects[The(devx.directConnectionInfo)[k]]]

\* C30: an error reply to an action() request raises the typed API error or
\* the decode failure at once: nothing more is sent, and the candidate order,
\* the cooldowns and the failure counter stay as they were.
ErrorReplyPropagates ==
    [][\A a \in ActIds :
         ActionErrorReplyStep(a) =>
           /\ act'[a].pc = "idle" /\ act'[a].out = "throw"
           /\ act'[a].err \in ApiExceptionClasses \cup {"MYJDDecodeException"}
           /\ act'[a].nreq = act[a].nreq
           /\ dev'.directConnectionInfo = dev.directConnectionInfo
           /\ CandidateCooldowns(dev') = CandidateCooldowns(dev)
           /\ dev'.directConnectionCooldown = dev.directConnectionCooldown
           /\ dev'.directConnectionConsecutiveFailures
                 = dev.directConnectionConsecutiveFailures
           /\ dev'.directConnectionEnabled = dev.directConnectionEnabled]_vars

\* The first candidate gave no response and the second answered with an
\* error reply, which the call raised.
CandidateErrorRaised ==
    \E a \in ActIds :
        /\ act[a].pc = "idle" /\ act[a].stage = "direct" /\ act[a].out = "throw"
        /\ act[a].rx.net = "error" /\ act[a].nreq = 2
        /\ act[a].err = "MYJDAuthFailedException"
        /\ dev.directConnectionCooldown = 0

\* The query string written out piece by piece: the path, "?", then
\* "name=value&" for each parameter in the order given, then "rid=<id>".
RECURSIVE ParamsInOrder(_)
ParamsInOrder(params) ==
    IF params = <<>> THEN <<>>
    ELSE <<Lit(params[1][1]), Lit("="), Val(encodeURIComponent(params[1][2])), Lit("&")>>
           \o ParamsInOrder(Tail(params))
OrderedQuery(q) ==
    <<Lit(q.path), Lit("?")>> \o ParamsInOrder(q.params) \o <<Lit("rid="), Num(q.rid)>>
Swapped(params) == [k \in DOMAIN params |-> params[Len(params) + 1 - k]]

\* C31: the GET query of RELAY mode is the path, the parameters in the
\* caller's order, rid and then the signature; the signature is computed
\* over the string that precedes "&signature=" in the URL sent, and the
\* parameters in another order give another signed string.
SignedQueryInOrder ==
    (sess.pc \in FetchPcs /\ sess.req.method = "GET" /\ jd.connectionType = "myjd") =>
        /\ sess.req.text = OrderedQuery(sess.req.query)
        /\ sess.req.query.rid = sess.req.rid
        /\ sess.req.signature.data = sess.req.text
        /\ sess.req.signature.key # Null
        /\ Swapped(sess.req.query.params) # sess.req.query.params =>
              /\ OrderedQuery([sess.req.query EXCEPT !.params = Swapped(@)])
                    # sess.req.signature.data
              /\ signatureCreate(sess.req.signature.key,
                                 OrderedQuery([sess.req.query EXCEPT !.params = Swapped(@)]))
                    # sess.req.signature

\* The handshake, with its two parameters email and appkey, is in flight.
SignedHandshakeInFlight ==
    /\ sess.pc = "handshake" /\ Len(sess.req.query.params) = 2
    /\ sess.req.signature.key = jd.loginSecret

\* No connect, reconnect or disconnect call is in progress.
NoSessionChangeInProgress ==
    sess.pc = "idle" \/ sess.op \notin {"connect", "reconnect", "disconnect"}

\* C32: while no connect / reconnect / disconnect is in progress, a session
\* that reports isConnected() in RELAY mode holds a session token, a regain
\* token, both encryption tokens and a device list, and its device token is
\* H(deviceSecret ++ session token).
ConnectedSessionIsComplete ==
    (NoSessionChangeInProgress /\ isConnected /\ jd.connectionType = "myjd") =>
        /\ jd.sessionToken # Null /\ jd.regainToken # Null
        /\ jd.serverEncryptionToken # Null /\ jd.deviceEncryptionToken # Null
        /\ listDevices # None
        /\ jd.deviceEncryptionToken
             = Digest(concatBuffers(jd.deviceSecret, hexToBuffer(jd.sessionToken)))

\* connect() has raised on the reply to /my/listdevices and the session
\* reports isConnected().
ConnectedAfterListFailure ==
    /\ Finished("connect") /\ sess.out = "throw" /\ sess.stage = "listdevices"
    /\ isConnected /\ jd.connectionType = "myjd"

\* C33: a reconnect() that fails, because the session is not connected or
\* because /my/reconnect got no response or an error reply, leaves the session
\* token, the regain token, both encryption tokens, the device list and the
\* connected flag as they were before the call.
FailedReconnectFrame ==
    [][(ReconnectStep /\ (sess'.pc = "reconnect" \/ sess'.out = "throw")) =>
         /\ sess'.out = "throw" => sess'.stage \in {"idle", "reconnect"}
         /\ jd'.sessionToken = jd.sessionToken /\ jd'.regainToken = jd.regainToken
         /\ jd'.serverEncryptionToken = jd.serverEncryptionToken
         /\ jd'.deviceEncryptionToken = jd.deviceEncryptionToken
         /\ jd'.devices = jd.devices
         /\ jd'.connected = jd.connected]_vars

\* A reconnect() on a connected session has raised on an error reply.
ReconnectRaisedOnErrorReply ==
    /\ Finished("reconnect") /\ sess.out = "throw" /\ sess.rx.net = "error"
    /\ isConnected /\ jd.sessionToken # Null /\ listDevices # None

\* disconnect() has completed and no session call has started since.
Disconnected ==
    Finished("disconnect") /\ sess.out = "return" /\ ~isConnected

\* C34: after disconnect() has completed, action() on a handle obtained
\* earlier raises a connection failure without sending a request and without
\* changing the candidate list, the cooldowns or the failure counter.
ActionAfterDisconnectRaises ==
    [][\A a \in ActIds :
         (Disconnected /\ ActionStartStep(a)) =>
           /\ act'[a].pc = "idle" /\ act'[a].out = "throw"
           /\ act'[a].err = "MYJDConnectionException"
           /\ act'[a].nreq = 0
           /\ dev'.directConnectionInfo = dev.directConnectionInfo
           /\ CandidateCooldowns(dev') = CandidateCooldowns(dev)
           /\ dev'.directConnectionCooldown = dev.directConnectionCooldown
           /\ dev'.directConnectionConsecutiveFailures
                 = dev.directConnectionConsecutiveFailures]_vars

\* action() has raised on a disconnected session whose handle tracks
\* candidates and whose device-level cooldown is over.
DirectBranchAfterDisconnect ==
    \E a \in ActIds :
        /\ Disconnected /\ act[a].pc = "idle" /\ act[a].out = "throw"
        /\ act[a].route = "direct" /\ act[a].nreq = 0


BackoffOnlyAfterDispatch ==
    [][\A a \in ActIds :
          /\ (\/ dev'.directConnectionConsecutiveFailures
                    > dev.directConnectionConsecutiveFailures
              \/ dev'.directConnectionCooldown # dev.directConnectionCooldown)
                => (DirectReplyStep(a) /\ act'[a].rx.kind = "null")
          /\ (ActionStartStep(a) /\ act'[a].route = "direct")
                => act'[a].pc = "direct"
    ]_vars

\* A call started at the very end of the device-level cooldown, which is
\* also the end of the candidates' cooldowns: it entered the direct path,
\* skipped every candidate and went on to step 3 without any dispatch; the
\* counter is 2 and only the relay request is in flight.
AllCandidatesSkipped ==
    \E a \in ActIds :
        /\ act[a].route = "direct" /\ act[a].pc = "fallback" /\ act[a].nreq = 1
        /\ \A k \in DOMAIN Tracked(dev) : Tracked(dev)[k].cooldown = act[a].now
        /\ dev.directConnectionConsecutiveFailures = 2
        /\ jd.connected


\* The cooldown of every address tracked by both handles is the same.
SameCooldowns(devx, devy) ==
    \A e \in Range(Tracked(devx)), f \in Range(Tracked(devy)) :
        e.conn = f.conn => e.cooldown = f.cooldown

\* C37: the counter goes back to 0 only in the step in which a direct
\* candidate answers; no step of an action() call that took the relay branch
\* of line 1382 changes the counter, the device-level cooldown or the
\* cooldown of a candidate, whatever the relay answers; and the steps of the
\* relay fallback after a full direct failure leave the counter as it is.
CounterResetOnlyByDirect ==
    [][\A a \in ActIds :
          LET n == dev.directConnectionConsecutiveFailures
              n1 == dev'.directConnectionConsecutiveFailures
          IN  /\ (n # 0 /\ n1 = 0)
                    => (DirectReplyStep(a) /\ act'[a].rx.kind = "value")
              /\ (act'[a] # act[a] /\ act'[a].route = "relay") =>
                    /\ n1 = n
                    /\ dev'.directConnectionCooldown = dev.directConnectionCooldown
                    /\ SameCooldowns(dev, dev')
              /\ (act[a].pc \in {"fallback", "refresh"} /\ act'[a] # act[a]) => n1 = n
    ]_vars

\* The relay fallback after a full direct failure has answered and action()
\* has returned its payload: the counter still stands at 1.
FallbackAnsweredCounterKept ==
    \E a \in ActIds :
        /\ act[a].pc = "idle" /\ act[a].out = "return" /\ act[a].route = "direct"
        /\ act[a].stage \in {"fallback", "refresh"}
        /\ act[a].nreq > 2
        /\ dev.directConnectionConsecutiveFailures = 1


\* C38: when disableDirectConnection() has run while action() awaits a
\* direct dispatch (the list is null when the reply is processed), the call
\* still goes on or ends by returning a payload or raising a connection
\* failure, a typed API error or a decode failure: it never ends with the
\* TypeError of reading the cleared list.
DisableDuringDispatchIsSafe ==
    [][\A a \in ActIds :
          (DirectReplyStep(a) /\ dev.directConnectionInfo = None) =>
              \/ act'[a].pc # "idle"
              \/ act'[a].out = "return"
              \/ /\ act'[a].out = "throw"
                 /\ act'[a].err \in ApiExceptionClasses
                        \cup {"MYJDConnectionException", "MYJDDecodeException"}
    ]_vars

\* The direct candidate answered with a payload after the candidates had
\* been cleared during the dispatch: action() ended with a TypeError, and
\* direct connections are still off.
DispatchEndedInTypeError ==
    \E a \in ActIds :
        /\ act[a].pc = "idle" /\ act[a].stage = "direct"
        /\ act[a].out = "throw" /\ act[a].err = "TypeError"
        /\ act[a].rx.kind = "value"
        /\ ~dev.directConnectionEnabled /\ dev.directConnectionInfo = None

==============================================================================
